---- MODULE Spec2Model ----
(***************************************************************************)
(* gemini-parallel-flow.                                                   *)
(*                                                                         *)
(* Spec: the Task Status Reconciler, the parallel-webhook edge function    *)
(* (supabase/functions/parallel-webhook/index.ts), in both                 *)
(* variants the file holds, running against the task_runs and messages     *)
(* tables and the research provider's result endpoint.                     *)
(* SpecDispatch: one handleSendMessage call of the chat area together with *)
(* the chat-send or research-start invocation it awaits.                   *)
(* SpecProgress: the useResearchProgress hook of one run, with its event   *)
(* source, change-feed subscription, timers and result fetches.            *)
(* SpecStream: one research-stream request relaying the provider's event   *)
(* stream to a client.                                                     *)
(* SpecOrder: the messages of one session, written through useMessages or  *)
(* into table messages, and the reads of them.                             *)
(* SpecClassify: the calls of isResearchQuery on one message.              *)
(*                                                                         *)
(* Every webhook delivery is one handler invocation.  An invocation is     *)
(* split at its awaits on shared state: the task_runs update, the provider *)
(* fetch, the session lookup, the result update and the message insert are *)
(* separate steps, so two invocations interleave exactly where the code    *)
(* can be suspended.  Reading the request, verifying the signature and     *)
(* parsing the body touch no shared state and form the first step.         *)
(***************************************************************************)
EXTENDS Naturals, Sequences, FiniteSets

\* ------------------------------------------------------------------ bounds

\* webhook deliveries (handler invocations) in one behaviour
NumDeliveries == 2
\* space-separated candidates in one webhook-signature header
MaxCandidates == 2

Handlers == 1..NumDeliveries

\* ------------------------------------------------------------------ values

Null == "null"

\* task_runs.status CHECK constraint
TaskStatuses == {"queued", "running", "completed", "failed", "canceled"}
TerminalStatuses == {"completed", "failed", "canceled"}

\* the run research-start has persisted, and a run the datastore never saw
PersistedRun == "run_42"
UnknownRun == "run_99"
OwningSession == "s1"

\* payload.run_id as the sender may set it (Null: the field is missing)
WebhookRunIds == {PersistedRun, UnknownRun, Null}
\* payload.status of a status-change notification: a run is created queued and
\* no change leads back to it
WebhookStatuses == TaskStatuses \ {"queued"}

\* PARALLEL_WEBHOOK_SECRET when configured, and a key the deployment does not hold
ConfiguredSecret == "whsec_live"
ForeignSecret == "whsec_other"

\* PARALLEL_API_KEY and GEMINI_API_KEY when configured
ConfiguredParallelKey == "pk_live"
ConfiguredGeminiKey == "gk_live"

VARIABLES
  variant,        \* which of the two handler variants of index.ts is deployed
  webhookSecret,  \* Deno.env.get('PARALLEL_WEBHOOK_SECRET'): a secret or Null
  taskRuns,       \* table task_runs, keyed by parallel_run_id (UNIQUE)
  messages,       \* table messages, in creation order
  handlers,       \* per invocation: position, locals, response
  parallelApiKey, \* Deno.env.get('PARALLEL_API_KEY'): a key or Null
  geminiApiKey,   \* Deno.env.get('GEMINI_API_KEY'): a key or Null
  chat,           \* the chat area: one handleSendMessage call and its flags
  fn,             \* the edge function invocation that call awaits
  testMessages,   \* localStorage research_copilot_test_messages, this session's list
  plan,           \* the brief builder: a chat-plan invocation, a createResearchPlan call
  hook,           \* useResearchProgress: its state, refs, timers and pending fetches
  relay,          \* research-stream: one request, its upstream reader and client stream
  store,          \* one session's messages with their created_at, and the last read
  query,          \* a message handed to isResearchQuery and what the calls returned
  backend,        \* useSessions and useMessages: which store each operation touched
  view,           \* useMessages in remote mode: the table, the local list, what is in flight
  area            \* the chat area over several handleSendMessage calls: flags, calls in flight

vars == <<variant, webhookSecret, taskRuns, messages, handlers,
          parallelApiKey, geminiApiKey, chat, fn, testMessages, plan, hook,
          relay, store, query, backend, view, area>>

\* what the steps of one part of the program leave alone
envVars == <<parallelApiKey, geminiApiKey>>
webhookVars == <<variant, webhookSecret, handlers>>
dispatchVars == <<chat, fn, testMessages>>
tableVars == <<taskRuns, messages>>
beyondWebhook == <<envVars, dispatchVars, plan, hook, relay, store, query, backend, view, area>>
beyondDispatch == <<envVars, webhookVars, plan, hook, relay, store, query, backend, view, area>>
beyondPlan == <<envVars, webhookVars, dispatchVars, tableVars, hook, relay, store, query, backend, view, area>>
beyondHook == <<envVars, webhookVars, dispatchVars, tableVars, plan, relay, store, query, backend, view, area>>
beyondRelay == <<envVars, webhookVars, dispatchVars, tableVars, plan, hook, store, query, backend, view, area>>
beyondStore == <<envVars, webhookVars, dispatchVars, tableVars, plan, hook, relay, query, backend, view, area>>
beyondQuery == <<envVars, webhookVars, dispatchVars, tableVars, plan, hook, relay, store, backend, view, area>>
beyondBackend == <<envVars, webhookVars, dispatchVars, tableVars, plan, hook, relay, store, query, view, area>>
beyondView == <<envVars, webhookVars, dispatchVars, tableVars, plan, hook, relay, store, query, backend, area>>
beyondArea == <<envVars, webhookVars, dispatchVars, tableVars, plan, hook, relay, store, query, backend, view>>

\* ------------------------------------------------------------- signatures

\* `${webhookId}.${timestamp}.${payload}`; a header that is absent reads ''
SignedPayload(webhookId, timestamp, payload) ==
  <<IF webhookId = Null THEN "" ELSE webhookId,
    IF timestamp = Null THEN "" ELSE timestamp,
    payload>>

\* base64(HMAC-SHA256(secret, signedPayload)): injective in key and message
Hmac(secret, signedPayload) == <<secret, signedPayload>>

\* one candidate of the signature header: "v1=<mac>" or the bare "<mac>"
Candidate(scheme, mac) == [scheme |-> scheme, mac |-> mac]
EmptyCandidate ==
  [scheme |-> "raw",
   mac |-> <<"", <<"", "", [json |-> FALSE, run_id |-> Null, status |-> Null]>>>>]

\* the webhook-signature header as the request carries it
AbsentHeader == [present |-> FALSE, candidates |-> <<>>]
Header(candidates) == [present |-> TRUE, candidates |-> candidates]

\* signature.split(' '); the second variant reads an absent header as ''
SplitSignature(signature) ==
  IF signature.present THEN signature.candidates ELSE <<EmptyCandidate>>

\* first variant: some candidate === `v1=${expectedSignature}`
verifyWebhookSignatureV1(payload, signature, timestamp, webhookId, secret) ==
  LET expectedSignature == Hmac(secret, SignedPayload(webhookId, timestamp, payload))
      signatures == SplitSignature(signature)
  IN \E i \in 1..Len(signatures) :
       signatures[i] = Candidate("v1", expectedSignature)

\* second variant: some candidate === expectedSignature
verifyWebhookSignatureV2(payload, signature, timestamp, webhookId, secret) ==
  LET expectedSignature == Hmac(secret, SignedPayload(webhookId, timestamp, payload))
      signatures == SplitSignature(signature)
  IN \E i \in 1..Len(signatures) :
       signatures[i] = Candidate("raw", expectedSignature)

\* ---------------------------------------------------------------- requests

\* request bodies: text that is not JSON, or an object with run_id and status
MalformedBody == [json |-> FALSE, run_id |-> Null, status |-> Null]
Bodies ==
  {MalformedBody} \cup
  {[json |-> TRUE, run_id |-> r, status |-> s] : r \in WebhookRunIds, s \in WebhookStatuses}

\* what a sender can put into one candidate for the request it sends
CandidatesFor(webhookId, timestamp, payload) ==
  {Candidate(sch, Hmac(k, SignedPayload(webhookId, timestamp, payload))) :
     sch \in {"v1", "raw"}, k \in {ConfiguredSecret, ForeignSecret}}

SeqsUpTo(S, n) == UNION {[1..k -> S] : k \in 1..n}

\* the webhook-signature header: absent, or one to MaxCandidates candidates
SignatureHeaders(webhookId, timestamp, payload) ==
  {AbsentHeader} \cup
  {Header(c) : c \in SeqsUpTo(CandidatesFor(webhookId, timestamp, payload), MaxCandidates)}

WebhookIds == {Null, "wh_1"}
WebhookTimestamps == {Null, "1700000000"}

\* some candidate of the header carries the HMAC the configured secret gives
\* for this request, in either spelling (bare or with the v1= prefix)
SignatureMatches(payload, signature, timestamp, webhookId, secret) ==
  /\ secret # Null
  /\ signature.present
  /\ \E i \in 1..Len(signature.candidates) :
       signature.candidates[i].mac = Hmac(secret, SignedPayload(webhookId, timestamp, payload))

\* ------------------------------------------------------------------ state

IdleHandler ==
  [pc |-> "idle", run_id |-> Null, status |-> Null, verified |-> "none",
   sigMatch |-> FALSE, session_id |-> Null, fetched |-> "none", resp |-> 0,
   prevStatus |-> Null, touched |-> FALSE, parsed |-> FALSE, dbFailed |-> FALSE,
   after |-> {}]

\* the "Research Started" message research-start inserts after the row
StartedMessage ==
  [session_id |-> OwningSession, role |-> "research",
   content |-> <<[n |-> 0, text |-> "Research Started"],
                 [n |-> 0, text |-> "Task ID:"], [n |-> 0, text |-> PersistedRun]>>,
   run_id |-> PersistedRun, status |-> "started", error |-> FALSE,
   retryable |-> FALSE, by |-> 0]

\* the chat area before a send: empty input box, both busy flags down
IdleChat ==
  [pc |-> "idle", input |-> <<>>, sessionId |-> Null, user |-> FALSE,
   isTestMode |-> FALSE, messageContent |-> <<>>, shouldResearch |-> FALSE,
   sending |-> FALSE, researching |-> FALSE, failed |-> {}, error |-> FALSE,
   run_id |-> Null, rejected |-> FALSE]

\* no edge function invocation in progress; calls counts the provider calls,
\* wrote names the tables written, cause the step that threw, reply what the
\* provider call came to
IdleFn ==
  [name |-> Null, variant |-> 1, pc |-> "idle", calls |-> 0, wrote |-> {},
   resp |-> 0, error |-> FALSE, run_id |-> Null, cause |-> Null, reply |-> Null,
   brief |-> [field \in {} |-> Null],
   body |-> [run_id |-> Null, sse_url |-> <<>>, status |-> Null],
   request |-> <<>>]

\* useResearchProgress as mounted (part_004 lines 44-55): nothing started.
\* fetches counts the fetchResult calls in flight, snaps the running snap
\* intervals per final status, timers the pending reconnect timeouts;
\* capturedStatus and capturedProgress are the status and progress of the render
\* whose callbacks the interval and the event handlers hold; signals counts the
\* terminal signals handled, canceled tells that cancelProgress was the last
\* of startProgress and cancelProgress to run, observed holds the terminal
\* statuses of the run that an event or a row update has shown the hook,
\* openSources counts the EventSource objects that are not closed, reopened
\* and suppressed tell that a reconnect timeout has opened one, or has found
\* the completion flag set and opened none
IdleHook ==
  [status |-> "idle", progress |-> 0, result |-> Null, error |-> Null,
   liveUpdates |-> 0, hasSSE |-> FALSE, isCompleteRef |-> FALSE,
   progressInterval |-> FALSE, eventSource |-> FALSE, webhookSubscription |-> FALSE,
   fetches |-> 0, snaps |-> [completed |-> 0, failed |-> 0], timers |-> 0,
   capturedStatus |-> "idle", capturedProgress |-> 0,
   signals |-> 0, canceled |-> FALSE, observed |-> {},
   openSources |-> 0, reopened |-> FALSE, suppressed |-> FALSE]

\* research-stream before a request: nothing read from the provider, the
\* client stream not yet created.  upstream holds the chunks read so far,
\* queue the chunks enqueued and not yet taken by the client, delivered the
\* chunks the client took; state is the client stream's state
IdleRelay ==
  [pc |-> "idle", resp |-> 0, calls |-> 0, upstream |-> <<>>, queue |-> <<>>,
   delivered |-> <<>>, state |-> "none", closeRequested |-> FALSE, ended |-> "no",
   terminated |-> 0, attempts |-> 0, threw |-> FALSE, cancelled |-> FALSE]

\* a session without messages: the clock that stamps created_at, the rows of
\* table messages and the localStorage list in insertion order (id numbers
\* the messages in the order they arrived), and what the last read returned
\* to which reader
IdleStore ==
  [isTestMode |-> FALSE, clock |-> 0, rows |-> <<>>, list |-> <<>>,
   read |-> <<>>, reader |-> "none"]

\* the hooks before any operation: the test-mode flag at startup and now,
\* whether a user is signed in, and the operations that have touched the
\* remote datastore and the local-storage store
IdleBackend ==
  [initialTestMode |-> FALSE, isTestMode |-> FALSE, user |-> FALSE,
   remote |-> {}, local |-> {}]

\* useMessages of a session without messages, in remote mode: rows is table
\* messages (row i has id i and revision rows[i]), list the hook's messages
\* state, events the realtime notifications on their way to the subscription,
\* data the rows an unsettled fetchMessages has read, loading the hook's
\* loading state, failed whether the latest fetchMessages took its catch
\* branch, returned the id of the row the latest addMessage returned
IdleView ==
  [rows |-> <<>>, list |-> <<>>, subscribed |-> FALSE, events |-> <<>>,
   fetching |-> FALSE, data |-> <<>>, loading |-> TRUE, failed |-> FALSE,
   returned |-> 0]

\* the chat area with no send in flight: calls holds the handleSendMessage
\* invocations that passed the entry guard and have not reached the end of
\* their finally block, each with the input and session it was called with;
\* sends counts them, posted collects what they inserted or requested,
\* declined whether a call made during a send returned at the guard
IdleArea ==
  [input |-> <<>>, sessionId |-> Null, sending |-> FALSE, researching |-> FALSE,
   calls |-> <<>>, sends |-> 0, posted |-> {}, declined |-> FALSE]

\* no message classified yet
IdleQuery == [message |-> <<>>, calls |-> 0, answers |-> {}]

\* no chat-plan invocation in progress, no brief validated or returned yet
IdlePlan ==
  [pc |-> "idle", calls |-> 0, resp |-> 0, error |-> FALSE, content |-> Null,
   body |-> [field \in {} |-> Null], validated |-> {}, created |-> {}, threw |-> FALSE]

Init ==
  /\ variant \in {1, 2}
  /\ webhookSecret \in {Null, ConfiguredSecret}
  /\ parallelApiKey \in {Null, ConfiguredParallelKey}
  /\ geminiApiKey = ConfiguredGeminiKey
  /\ chat = IdleChat
  /\ fn = IdleFn
  /\ testMessages = <<>>
  /\ plan = IdlePlan
  /\ hook = IdleHook
  /\ relay = IdleRelay
  /\ backend = IdleBackend
  /\ view = IdleView
  /\ area = IdleArea
  /\ store = IdleStore
  /\ query = IdleQuery
  /\ taskRuns = [r \in {PersistedRun} |->
                   [session_id |-> OwningSession, status |-> "queued",
                    completed_at |-> Null, result |-> Null]]
  /\ messages = <<StartedMessage>>
  /\ handlers = [h \in Handlers |-> IdleHandler]

\* handlers that have already answered: a delivery received now comes after them
Answered == {g \in Handlers : handlers[g].pc = "done"}

\* return new Response(..., {status: code})
Respond(H, code) == [H EXCEPT !.pc = "done", !.resp = code]

\* --------------------------------------------------- first variant: receive

\* lines 49-80: read headers and body, verify when secret and all three headers
\* are truthy, JSON.parse, reject a payload without run_id
HandleRequestV1(webhookId, webhookTimestamp, webhookSignature, body) ==
  LET checked == /\ webhookSecret # Null
                 /\ webhookId # Null
                 /\ webhookTimestamp # Null
                 /\ webhookSignature.present
      isValid == verifyWebhookSignatureV1(body, webhookSignature, webhookTimestamp,
                                          webhookId, webhookSecret)
      H0 == [IdleHandler EXCEPT
               !.after = Answered,
               !.sigMatch = SignatureMatches(body, webhookSignature, webhookTimestamp,
                                             webhookId, webhookSecret),
               !.verified = IF ~checked THEN "skipped"
                            ELSE IF isValid THEN "passed" ELSE "rejected"]
  IN IF checked /\ ~isValid THEN Respond(H0, 400)
     ELSE IF ~body.json THEN Respond(H0, 500)
     ELSE IF body.run_id = Null
       THEN Respond([H0 EXCEPT !.parsed = TRUE, !.status = body.status], 400)
     ELSE [H0 EXCEPT !.pc = "update", !.parsed = TRUE,
                     !.run_id = body.run_id, !.status = body.status]

ReceiveV1(h) ==
  /\ variant = 1
  /\ handlers[h].pc = "idle"
  /\ \E webhookId \in WebhookIds, webhookTimestamp \in WebhookTimestamps, body \in Bodies :
       \E webhookSignature \in SignatureHeaders(webhookId, webhookTimestamp, body) :
         handlers' = [handlers EXCEPT ![h] =
           HandleRequestV1(webhookId, webhookTimestamp, webhookSignature, body)]
  /\ UNCHANGED <<beyondWebhook, variant, webhookSecret, taskRuns, messages>>

\* -------------------------------------------------- second variant: receive

\* lines 236-254: JSON.parse first, then verify whenever a secret is configured,
\* absent headers read as ''; no run_id check
HandleRequestV2(webhookId, webhookTimestamp, webhookSignature, body) ==
  LET isValid == verifyWebhookSignatureV2(body, webhookSignature, webhookTimestamp,
                                          webhookId, webhookSecret)
      H0 == [IdleHandler EXCEPT
               !.after = Answered,
               !.sigMatch = SignatureMatches(body, webhookSignature, webhookTimestamp,
                                             webhookId, webhookSecret)]
      H1 == [H0 EXCEPT !.parsed = TRUE]
  IN IF ~body.json THEN Respond(H0, 500)
     ELSE IF webhookSecret # Null /\ ~isValid
       THEN Respond([H1 EXCEPT !.verified = "rejected"], 401)
     ELSE [H1 EXCEPT !.pc = "update", !.run_id = body.run_id, !.status = body.status,
                     !.verified = IF webhookSecret # Null THEN "passed" ELSE "skipped"]

ReceiveV2(h) ==
  /\ variant = 2
  /\ handlers[h].pc = "idle"
  /\ \E webhookId \in WebhookIds, webhookTimestamp \in WebhookTimestamps, body \in Bodies :
       \E webhookSignature \in SignatureHeaders(webhookId, webhookTimestamp, body) :
         handlers' = [handlers EXCEPT ![h] =
           HandleRequestV2(webhookId, webhookTimestamp, webhookSignature, body)]
  /\ UNCHANGED <<beyondWebhook, variant, webhookSecret, taskRuns, messages>>

\* ---------------------------------------------------------------- datastore

\* rows of task_runs with parallel_run_id = run_id (at most one: UNIQUE);
\* an undefined run_id matches no row
MatchingRows(table, run_id) == {r \in DOMAIN table : r = run_id}

\* .update(fields).eq('parallel_run_id', run_id): every matching row gets the
\* fields, whatever it held; a failed request changes nothing
DbUpdate(table, run_id, fields, dbOk) ==
  IF ~dbOk THEN table
  ELSE [r \in DOMAIN table |->
          IF r = run_id
            THEN [f \in DOMAIN table[r] |->
                    IF f \in DOMAIN fields THEN fields[f] ELSE table[r][f]]
            ELSE table[r]]

\* .select('session_id').single(): data is the one row, and it is an error
\* (PGRST116) when the request matched no row
DbSingle(table, run_id, dbOk) ==
  IF dbOk /\ MatchingRows(table, run_id) # {}
    THEN [data |-> [found |-> TRUE, session_id |-> table[run_id].session_id],
          error |-> FALSE]
    ELSE [data |-> [found |-> FALSE, session_id |-> Null], error |-> TRUE]

\* .from('messages').insert(row): appended with the next creation timestamp
DbInsertMessage(table, row, dbOk) == IF dbOk THEN Append(table, row) ELSE table

\* persisted status of the run before a step, Null without a row
PersistedStatus(run_id) ==
  IF MatchingRows(taskRuns, run_id) # {} THEN taskRuns[run_id].status ELSE Null

\* ----------------------------------------------------------------- provider

\* GET /v1/tasks/runs/{run_id}[/result] answers {status, output: {...}}
ProviderResult ==
  [status |-> "completed",
   output |-> [summary |-> "X", key_facts |-> <<"a", "b">>, sources |-> <<"s1">>]]

\* the fetch: a 2xx response, a non-2xx response, or a network error
FetchOutcomes == {"ok", "notok", "neterr"}

\* ----------------------------------------------------------------- messages

\* `${value}` of a field the object may lack
Field(obj, name) == IF name \in DOMAIN obj THEN obj[name] ELSE "undefined"

\* a piece of message text; n is the number an enumerated item carries
Text(t) == [n |-> 0, text |-> t]
Texts(ts) == [i \in 1..Len(ts) |-> Text(ts[i])]

\* list.map((x, i) => `${i + 1}. ${x}`)
Numbered(list) == [i \in 1..Len(list) |-> [n |-> i, text |-> list[i]]]

\* list?.map(...).join('\n') || fallback: a missing or empty list gives the fallback
NumberedOr(obj, name, fallback) ==
  IF name \in DOMAIN obj /\ Len(obj[name]) > 0
    THEN Numbered(obj[name]) ELSE <<Text(fallback)>>

\* if (output?.list && Array.isArray(output.list)): heading and items, or nothing
NumberedIfPresent(obj, name, heading) ==
  IF name \in DOMAIN obj THEN <<Text(heading)>> \o Numbered(obj[name]) ELSE <<>>

\* status.charAt(0).toUpperCase() + status.slice(1)
Capitalize(status) ==
  CASE status = "failed" -> "Failed"
    [] status = "canceled" -> "Canceled"
    [] OTHER -> status

\* a messages row: session_id, role, content, and of the metadata document the
\* keys run_id, status, error and retryable (a key the document lacks reads
\* undefined); by is the webhook invocation that inserted it, 0 for any other writer
Message(session_id, role, content, metadata, h) ==
  [session_id |-> session_id, role |-> role, content |-> content,
   run_id |-> Field(metadata, "run_id"), status |-> Field(metadata, "status"),
   error |-> ("error" \in DOMAIN metadata /\ metadata.error),
   retryable |-> ("retryable" \in DOMAIN metadata /\ metadata.retryable), by |-> h]

\* lines 109-172: the message the first variant inserts for its status and fetch
MessageV1(H, h) ==
  IF H.status = "completed" /\ H.fetched = "ok"
    THEN LET result == ProviderResult
         IN Message(H.session_id, "research",
              Texts(<<"Research Completed", "Summary:", Field(result, "summary"),
                      "Key Facts:">>)
                \o NumberedOr(result, "key_facts", "No key facts provided")
                \o <<Text("Sources:")>>
                \o NumberedOr(result, "sources", "No sources provided")
                \o Texts(<<"Task ID:", H.run_id>>),
              [run_id |-> H.run_id, status |-> "completed"], h)
  ELSE IF H.status = "completed" /\ H.fetched = "notok"
    THEN Message(H.session_id, "system",
           Texts(<<"Research task completed but failed to retrieve results.",
                   "Task ID:", H.run_id>>),
           [run_id |-> H.run_id, status |-> "error"], h)
  ELSE IF H.status = "completed"
    THEN Message(H.session_id, "system",
           Texts(<<"Research task completed but encountered an error retrieving results.",
                   "Task ID:", H.run_id>>),
           [run_id |-> H.run_id, status |-> "error"], h)
  ELSE Message(H.session_id, "system",
         Texts(<<"Research task", H.status, "Task ID:", H.run_id>>),
         [run_id |-> H.run_id, status |-> H.status], h)

\* lines 313-381: the message the second variant inserts
MessageV2(H, h) ==
  IF H.status = "completed"
    THEN LET output == ProviderResult.output
         IN Message(H.session_id, "research",
              <<Text("Research Complete")>>
                \o (IF "summary" \in DOMAIN output
                      THEN Texts(<<"Summary", output.summary>>) ELSE <<>>)
                \o NumberedIfPresent(output, "key_facts", "Key Facts")
                \o NumberedIfPresent(output, "sources", "Sources")
                \o Texts(<<"Task ID:", H.run_id>>),
              [run_id |-> H.run_id, status |-> "completed"], h)
    ELSE Message(H.session_id, "system",
           Texts(<<"Research", Capitalize(H.status),
                   "The research task encountered an issue and could not be completed.",
                   "Task ID:", H.run_id>>),
           [run_id |-> H.run_id, status |-> H.status, error |-> TRUE], h)

\* ----------------------------------------------------- first variant: steps

\* lines 82-98 and the branch at 101/163: update({status}).eq().select().single()
UpdateStatusV1(h) ==
  /\ variant = 1
  /\ handlers[h].pc = "update"
  /\ \E dbOk \in BOOLEAN :
       LET H == handlers[h]
           taskRun == DbSingle(taskRuns, H.run_id, dbOk)
           hit == dbOk /\ MatchingRows(taskRuns, H.run_id) # {}
           H1 == [H EXCEPT !.session_id = taskRun.data.session_id,
                           !.prevStatus = PersistedStatus(H.run_id),
                           !.touched = hit]
           H2 == [H EXCEPT !.dbFailed = ~dbOk]
       IN /\ taskRuns' = DbUpdate(taskRuns, H.run_id, [status |-> H.status], dbOk)
          /\ handlers' = [handlers EXCEPT ![h] =
               IF taskRun.error THEN Respond(H2, 500)
               ELSE IF ~taskRun.data.found THEN Respond(H1, 404)
               ELSE IF H.status = "completed" THEN [H1 EXCEPT !.pc = "fetch"]
               ELSE IF H.status \in {"failed", "canceled"} THEN [H1 EXCEPT !.pc = "insert"]
               ELSE Respond(H1, 200)]
  /\ UNCHANGED <<beyondWebhook, variant, webhookSecret, messages>>

\* lines 102-107, 151: fetch(.../runs/${run_id}/result) inside try/catch
FetchResultV1(h) ==
  /\ variant = 1
  /\ handlers[h].pc = "fetch"
  /\ \E outcome \in FetchOutcomes :
       handlers' = [handlers EXCEPT ![h] =
         [handlers[h] EXCEPT !.fetched = outcome, !.pc = "insert"]]
  /\ UNCHANGED <<beyondWebhook, variant, webhookSecret, taskRuns, messages>>

\* lines 126-172: the insert, its error not looked at; then 175-178: 200
InsertMessageV1(h) ==
  /\ variant = 1
  /\ handlers[h].pc = "insert"
  /\ \E dbOk \in BOOLEAN :
       /\ messages' = DbInsertMessage(messages, MessageV1(handlers[h], h), dbOk)
       /\ handlers' = [handlers EXCEPT ![h] =
            Respond([handlers[h] EXCEPT !.dbFailed = handlers[h].dbFailed \/ ~dbOk], 200)]
  /\ UNCHANGED <<beyondWebhook, variant, webhookSecret, taskRuns>>

\* ---------------------------------------------------- second variant: steps

\* lines 256-273, 354: update({status, completed_at}).eq(); 0 rows is no error
UpdateStatusV2(h) ==
  /\ variant = 2
  /\ handlers[h].pc = "update"
  /\ \E dbOk \in BOOLEAN :
       LET H == handlers[h]
           hit == dbOk /\ MatchingRows(taskRuns, H.run_id) # {}
           H1 == [H EXCEPT !.prevStatus = PersistedStatus(H.run_id), !.touched = hit]
       IN /\ taskRuns' = DbUpdate(taskRuns, H.run_id,
                           [status |-> H.status,
                            completed_at |-> IF H.status = "completed" THEN "now" ELSE Null],
                           dbOk)
          /\ handlers' = [handlers EXCEPT ![h] =
               IF ~dbOk THEN Respond([H EXCEPT !.dbFailed = TRUE], 500)
               ELSE IF H.status = "completed" THEN [H1 EXCEPT !.pc = "fetch"]
               ELSE IF H.status \in {"failed", "canceled"} THEN [H1 EXCEPT !.pc = "select"]
               ELSE Respond(H1, 200)]
  /\ UNCHANGED <<beyondWebhook, variant, webhookSecret, messages>>

\* lines 276-289: fetch(.../runs/${run_id}); non-2xx and network errors throw
FetchResultV2(h) ==
  /\ variant = 2
  /\ handlers[h].pc = "fetch"
  /\ \E outcome \in FetchOutcomes :
       handlers' = [handlers EXCEPT ![h] =
         IF outcome = "ok"
           THEN [handlers[h] EXCEPT !.fetched = outcome, !.pc = "select"]
           ELSE Respond([handlers[h] EXCEPT !.fetched = outcome], 500)]
  /\ UNCHANGED <<beyondWebhook, variant, webhookSecret, taskRuns, messages>>

\* lines 292-302 and 357-367: select('session_id').eq().single(), throw if absent
SelectSessionV2(h) ==
  /\ variant = 2
  /\ handlers[h].pc = "select"
  /\ \E dbOk \in BOOLEAN :
       LET H == handlers[h]
           taskData == DbSingle(taskRuns, H.run_id, dbOk)
       IN handlers' = [handlers EXCEPT ![h] =
            IF taskData.error \/ ~taskData.data.found
              THEN Respond([H EXCEPT !.dbFailed = ~dbOk], 500)
            ELSE [H EXCEPT !.session_id = taskData.data.session_id,
                           !.pc = IF H.status = "completed" THEN "store" ELSE "insert"]]
  /\ UNCHANGED <<beyondWebhook, variant, webhookSecret, taskRuns, messages>>

\* lines 304-311: update({result, metadata}).eq(), its error not looked at
StoreResultV2(h) ==
  /\ variant = 2
  /\ handlers[h].pc = "store"
  /\ \E dbOk \in BOOLEAN :
       /\ taskRuns' = DbUpdate(taskRuns, handlers[h].run_id,
                               [result |-> "output"], dbOk)
       /\ handlers' = [handlers EXCEPT ![h] =
            [handlers[h] EXCEPT !.pc = "insert",
                                !.dbFailed = handlers[h].dbFailed \/ ~dbOk]]
  /\ UNCHANGED <<beyondWebhook, variant, webhookSecret, messages>>

\* lines 339-351 and 369-381: the insert, its error not looked at; then 384: 200
InsertMessageV2(h) ==
  /\ variant = 2
  /\ handlers[h].pc = "insert"
  /\ \E dbOk \in BOOLEAN :
       /\ messages' = DbInsertMessage(messages, MessageV2(handlers[h], h), dbOk)
       /\ handlers' = [handlers EXCEPT ![h] =
            Respond([handlers[h] EXCEPT !.dbFailed = handlers[h].dbFailed \/ ~dbOk], 200)]
  /\ UNCHANGED <<beyondWebhook, variant, webhookSecret, taskRuns>>

\* ------------------------------------------------------------ specification

Next ==
  \E h \in Handlers :
    \/ ReceiveV1(h)
    \/ UpdateStatusV1(h)
    \/ FetchResultV1(h)
    \/ InsertMessageV1(h)
    \/ ReceiveV2(h)
    \/ UpdateStatusV2(h)
    \/ FetchResultV2(h)
    \/ SelectSessionV2(h)
    \/ StoreResultV2(h)
    \/ InsertMessageV2(h)

Spec == Init /\ [][Next]_vars

\* ------------------------------------------------------------------- claims

\* the handler has answered
Answers(h) == handlers[h].pc = "done"

\* positions of the messages invocation h has inserted
InsertedBy(h) == {i \in 1..Len(messages) : messages[i].by = h}

\* a research-role outcome message for run r
IsOutcome(m, r) == m.role = "research" /\ m.status = "completed" /\ m.run_id = r

\* invocation h has changed the datastore: a task_runs row or the messages
Mutated(h) == handlers[h].touched \/ InsertedBy(h) # {}

\* the content names x
Names(content, x) == \E i \in 1..Len(content) : content[i].text = x

\* C1: two deliveries of the same {run_id, status: "completed"} body for a run
\* with a Task Run row, the second received after the first was answered: once
\* the first has inserted the research-role outcome message, the second inserts
\* none, so the session holds exactly one outcome message for the run.
C1_SequentialAtMostOnce ==
  \A h1, h2 \in Handlers :
    ( /\ h1 \in handlers[h2].after
      /\ Answers(h2)
      /\ handlers[h1].run_id = PersistedRun /\ handlers[h2].run_id = PersistedRun
      /\ handlers[h1].status = "completed" /\ handlers[h2].status = "completed"
      /\ \E i \in InsertedBy(h1) : IsOutcome(messages[i], PersistedRun) )
    => /\ \A i \in InsertedBy(h2) : ~IsOutcome(messages[i], PersistedRun)
       /\ Cardinality({i \in 1..Len(messages) :
                         IsOutcome(messages[i], PersistedRun)}) = 1

\* invocation h has performed the reconciliation side effect: the result fetch
\* or the message insert
SideEffect(h) == handlers[h].fetched # "none" \/ InsertedBy(h) # {}

\* C2: of two invocations for the same run_id carrying a terminal status, in any
\* interleaving, at most one performs the result-fetch-and-message-insert side
\* effect, and one that performs it saw a non-terminal persisted status before
\* its own update.
C2_ConcurrentAtMostOnce ==
  /\ \A h1, h2 \in Handlers :
       ( /\ h1 # h2
         /\ handlers[h1].run_id = PersistedRun /\ handlers[h2].run_id = PersistedRun
         /\ handlers[h1].status \in TerminalStatuses
         /\ handlers[h2].status \in TerminalStatuses )
       => ~(SideEffect(h1) /\ SideEffect(h2))
  /\ \A h \in Handlers :
       ( /\ handlers[h].run_id = PersistedRun
         /\ handlers[h].status \in TerminalStatuses
         /\ SideEffect(h) )
       => handlers[h].prevStatus \in TaskStatuses \ TerminalStatuses

\* position of a status in queued -> running -> {completed | failed | canceled}
Rank(status) ==
  CASE status = "queued" -> 0
    [] status = "running" -> 1
    [] OTHER -> 2

\* C3: a terminal persisted status is never changed by a later delivery, and the
\* persisted status only moves forward along queued -> running -> terminal.
C3_TerminalAbsorbing ==
  [][\A r \in DOMAIN taskRuns :
       /\ taskRuns[r].status \in TerminalStatuses
            => taskRuns'[r].status = taskRuns[r].status
       /\ Rank(taskRuns[r].status) <= Rank(taskRuns'[r].status)]_vars

\* C4: with a secret configured and no candidate of the signature header equal
\* to the HMAC of the request, the handler rejects the request: it leaves the
\* Task Run row as it was, inserts no message and does not answer 200.
C4_SignatureRejection ==
  \A h \in Handlers :
    (webhookSecret # Null /\ handlers[h].pc # "idle" /\ ~handlers[h].sigMatch)
    => /\ ~Mutated(h)
       /\ Answers(h) => handlers[h].resp # 200

\* the positions from the status update on
PastVerification == {"update", "fetch", "select", "store", "insert"}

\* C5: verification is skipped exactly when no secret is configured: with a
\* secret, every request that reaches the status update has passed it, requests
\* lacking one of the three headers included.
C5_SkippedOnlyWithoutSecret ==
  \A h \in Handlers :
    /\ (webhookSecret # Null /\ handlers[h].pc \in PastVerification)
         => handlers[h].verified = "passed"
    /\ (webhookSecret = Null /\ handlers[h].pc \in PastVerification)
         => handlers[h].verified = "skipped"

\* the payload of h parsed, was not turned away for its signature, and has no run_id
MissingRunId(h) ==
  /\ handlers[h].parsed
  /\ handlers[h].verified \in {"passed", "skipped"}
  /\ handlers[h].run_id = Null
  /\ ~handlers[h].dbFailed

\* C6: a payload without run_id is answered 400 and causes no datastore write
\* (no datastore request of the invocation having failed).
C6_MissingRunIdRejected ==
  \A h \in Handlers :
    MissingRunId(h)
    => /\ ~Mutated(h)
       /\ Answers(h) => handlers[h].resp = 400

\* C7: a failed or canceled webhook for a run without a terminal record, handled
\* with every datastore request succeeding, has inserted exactly one message:
\* system role, content naming the status and the run, metadata error: true;
\* and it fetched no result.
C7_FailureMessage ==
  \A h \in Handlers :
    ( /\ Answers(h) /\ handlers[h].resp = 200
      /\ handlers[h].run_id = PersistedRun
      /\ handlers[h].status \in {"failed", "canceled"}
      /\ handlers[h].prevStatus \notin TerminalStatuses
      /\ ~handlers[h].dbFailed )
    => /\ Cardinality(InsertedBy(h)) = 1
       /\ \A i \in InsertedBy(h) :
            /\ messages[i].role = "system"
            /\ messages[i].session_id = OwningSession
            /\ \/ Names(messages[i].content, handlers[h].status)
               \/ Names(messages[i].content, Capitalize(handlers[h].status))
            /\ Names(messages[i].content, PersistedRun)
            /\ messages[i].error
       /\ handlers[h].fetched = "none"

\* C8: a completed webhook whose result cannot be fetched (every datastore
\* request succeeding) ends with a system-role message for the run in the owning
\* session and no research-role outcome message; a run recorded as completed is
\* not left without a message.
C8_FetchFailureMessage ==
  \A h \in Handlers :
    ( /\ Answers(h)
      /\ handlers[h].status = "completed"
      /\ handlers[h].touched
      /\ ~handlers[h].dbFailed
      /\ handlers[h].fetched \in {"notok", "neterr"} )
    => /\ \E i \in InsertedBy(h) :
            /\ messages[i].role = "system"
            /\ messages[i].run_id = handlers[h].run_id
            /\ messages[i].session_id = OwningSession
       /\ \A i \in InsertedBy(h) : messages[i].role # "research"

\* C9: after a datastore error in any step the handler answers 500, never 200.
C9_DatastoreErrorIs500 ==
  \A h \in Handlers :
    (Answers(h) /\ handlers[h].dbFailed) => handlers[h].resp = 500

\* C10: a webhook whose run_id matches no Task Run row (no datastore request
\* failing for another reason) is answered 404 and changes nothing.
C10_UnknownRunIs404 ==
  \A h \in Handlers :
    (handlers[h].run_id = UnknownRun /\ ~handlers[h].dbFailed)
    => /\ ~Mutated(h)
       /\ DOMAIN taskRuns = {PersistedRun}
       /\ Answers(h) => handlers[h].resp = 404

\* ======================================================================
\* the chat area (src/components/ChatArea.tsx) and the functions it calls
\* ======================================================================

\* -------------------------------------------------------- query classifier

\* a message is the sequence of its UTF-16 code units, one-character strings

\* message.length > 100
LengthThreshold == 100

UpperCase ==
  <<"A", "B", "C", "D", "E", "F", "G", "H", "I", "J", "K", "L", "M",
    "N", "O", "P", "Q", "R", "S", "T", "U", "V", "W", "X", "Y", "Z">>
LowerCase ==
  <<"a", "b", "c", "d", "e", "f", "g", "h", "i", "j", "k", "l", "m",
    "n", "o", "p", "q", "r", "s", "t", "u", "v", "w", "x", "y", "z">>

\* String.prototype.toLowerCase: a capital maps to its small letter, any other
\* code unit to itself
toLowerCase(message) ==
  [i \in 1..Len(message) |->
     IF \E j \in DOMAIN UpperCase : UpperCase[j] = message[i]
       THEN LowerCase[CHOOSE j \in DOMAIN UpperCase : UpperCase[j] = message[i]]
       ELSE message[i]]

\* String.prototype.includes: keyword occurs in text as a contiguous run
includes(text, keyword) ==
  \E i \in 1..Len(text) :
    /\ i + Len(keyword) <= Len(text) + 1
    /\ SubSeq(text, i, i + Len(keyword) - 1) = keyword

\* lines 39-43
researchKeywords ==
  { <<"r", "e", "s", "e", "a", "r", "c", "h">>,
    <<"a", "n", "a", "l", "y", "z", "e">>,
    <<"i", "n", "v", "e", "s", "t", "i", "g", "a", "t", "e">>,
    <<"s", "t", "u", "d", "y">>,
    <<"e", "x", "p", "l", "o", "r", "e">>,
    <<"e", "x", "a", "m", "i", "n", "e">>,
    <<"f", "i", "n", "d", " ", "i", "n", "f", "o", "r", "m", "a", "t", "i", "o", "n">>,
    <<"g", "a", "t", "h", "e", "r", " ", "d", "a", "t", "a">>,
    <<"l", "o", "o", "k", " ", "i", "n", "t", "o">>,
    <<"c", "o", "m", "p", "r", "e", "h", "e", "n", "s", "i", "v", "e">>,
    <<"d", "e", "t", "a", "i", "l", "e", "d", " ", "a", "n", "a", "l", "y", "s", "i", "s">>,
    <<"i", "n", "-", "d", "e", "p", "t", "h">>,
    <<"t", "h", "o", "r", "o", "u", "g", "h">>,
    <<"c", "o", "m", "p", "a", "r", "e">>,
    <<"c", "o", "n", "t", "r", "a", "s", "t">> }

\* a classifier that takes a message of the threshold's length for a long one
isResearchQueryAtLeast(message) ==
  \/ \E keyword \in researchKeywords : includes(toLowerCase(message), keyword)
  \/ Len(message) >= LengthThreshold

\* lines 38-48
isResearchQuery(message) ==
  LET lowerMessage == toLowerCase(message)
  IN  \/ \E keyword \in researchKeywords : includes(lowerMessage, keyword)
      \/ Len(message) > LengthThreshold

\* String.prototype.trim: white space removed from both ends
WhiteSpace == {" ", "\n", "\t"}
RECURSIVE trimStart(_)
trimStart(text) ==
  IF text # <<>> /\ Head(text) \in WhiteSpace THEN trimStart(Tail(text)) ELSE text
RECURSIVE trimEnd(_)
trimEnd(text) ==
  IF text # <<>> /\ text[Len(text)] \in WhiteSpace
    THEN trimEnd(SubSeq(text, 1, Len(text) - 1))
    ELSE text
trim(text) == trimEnd(trimStart(text))

\* ------------------------------------------------- the session's messages

\* metadata documents of the chat area's messages
NoMetadata == [k \in {} |-> TRUE]
ErrorMetadata == [error |-> TRUE, retryable |-> TRUE]

\* useMessages.addMessage, lines 726-771 of LiveUpdatesPanel.tsx: throws without a
\* session or a user; in test mode appends to the localStorage list; otherwise
\* inserts the row and throws when the datastore reports an error.  The result
\* names both stores after the call and whether it threw
addMessage(role, content, metadata, dbOk) ==
  LET row == Message(chat.sessionId, role, content, metadata, 0)
  IN  IF chat.sessionId = Null \/ ~chat.user
        THEN [threw |-> TRUE, messages |-> messages, testMessages |-> testMessages]
      ELSE IF chat.isTestMode
        THEN [threw |-> FALSE, messages |-> messages,
              testMessages |-> Append(testMessages, row)]
      ELSE IF dbOk
        THEN [threw |-> FALSE, messages |-> Append(messages, row),
              testMessages |-> testMessages]
      ELSE [threw |-> TRUE, messages |-> messages, testMessages |-> testMessages]

\* the messages of the session in the store the chat area reads
SessionMessages == IF chat.isTestMode THEN testMessages ELSE messages

\* ---------------------------------------------------------- the chat area

\* handleResearchQuery, lines 128-137: the brief the chat area builds itself
InlineBrief(messageContent) ==
  [objective |-> messageContent,
   constraints |-> <<>>,
   target_sources |-> <<"academic", "news", "web">>,
   disallowed_sources |-> <<>>,
   timebox_minutes |-> 5,
   expected_output_fields |-> <<"summary", "key_facts", "sources">>,
   summary |-> <<"Research request: ">> \o messageContent]

\* what the user may have typed: nothing, a blank, a greeting, a research request
ChatInputs ==
  { <<>>, <<" ">>, <<"H", "i">>, <<" ", "S", "t", "u", "d", "y", " ", "x", " ">> }

\* the input box changes while no send is in progress
TypeInput ==
  /\ chat.pc = "idle"
  /\ \E text \in ChatInputs : chat' = [chat EXCEPT !.input = text]
  /\ UNCHANGED <<beyondDispatch, taskRuns, messages, fn, testMessages>>

\* handleSendMessage, lines 50-63: the entry guard, then the busy flag of the
\* route the classifier picks
handleSendMessage ==
  /\ chat.pc = "idle"
  /\ IF trim(chat.input) = <<>> \/ chat.sessionId = Null \/ chat.sending \/ chat.researching
       THEN chat' = chat
       ELSE LET messageContent == trim(chat.input)
                shouldResearch == isResearchQuery(messageContent)
            IN  chat' = [chat EXCEPT !.pc = "addUser", !.input = <<>>,
                                     !.messageContent = messageContent,
                                     !.shouldResearch = shouldResearch,
                                     !.researching = shouldResearch,
                                     !.sending = ~shouldResearch]
  /\ UNCHANGED <<beyondDispatch, taskRuns, messages, fn, testMessages>>

\* a step of the call threw: control is in the catch block of line 78
Thrown(C, step) == [C EXCEPT !.pc = "catch", !.failed = @ \cup {step}, !.error = TRUE]

\* the finally block of lines 85-88
Finally(C) == [C EXCEPT !.pc = "done", !.sending = FALSE, !.researching = FALSE]

\* line 66: await addMessage('user', messageContent)
AddUserMessage ==
  /\ chat.pc = "addUser"
  /\ \E dbOk \in BOOLEAN :
       LET r == addMessage("user", Texts(chat.messageContent), NoMetadata, dbOk)
       IN  /\ messages' = r.messages
           /\ testMessages' = r.testMessages
           /\ chat' = IF r.threw THEN Thrown(chat, "user-message insert")
                      ELSE [chat EXCEPT !.pc = "activity"]
  /\ UNCHANGED <<beyondDispatch, taskRuns, fn>>

\* line 69 and useSessions.updateLastActivity, lines 321-341 of
\* LiveUpdatesPanel.tsx: a datastore error is logged there and not rethrown
UpdateLastActivity ==
  /\ chat.pc = "activity"
  /\ \E dbOk \in BOOLEAN :
       chat' = [chat EXCEPT !.pc = IF chat.shouldResearch THEN "announce" ELSE "invoke",
                            !.failed = IF dbOk \/ chat.isTestMode THEN @
                                       ELSE @ \cup {"activity update"}]
  /\ UNCHANGED <<beyondDispatch, taskRuns, messages, fn, testMessages>>

\* handleResearchQuery, lines 124-126: the placeholder message, before the dispatch
AnnounceResearch ==
  /\ chat.pc = "announce"
  /\ \E dbOk \in BOOLEAN :
       LET r == addMessage("research", Texts(<<"Starting Research">>),
                           [status |-> "started"], dbOk)
       IN  /\ messages' = r.messages
           /\ testMessages' = r.testMessages
           /\ chat' = IF r.threw THEN Thrown(chat, "placeholder insert")
                      ELSE [chat EXCEPT !.pc = "invoke"]
  /\ UNCHANGED <<beyondDispatch, taskRuns, fn>>

\* lines 92-100 and 139-147: fetch of chat-send or research-start; the request
\* reaches the function or fetch itself rejects
InvokeFunction ==
  /\ chat.pc = "invoke"
  /\ \E reached \in BOOLEAN :
       IF reached
         THEN /\ chat' = [chat EXCEPT !.pc = "await"]
              /\ fn' = [fn EXCEPT !.pc = "key",
                           !.name = IF chat.shouldResearch THEN "research-start"
                                    ELSE "chat-send",
                           !.brief = IF chat.shouldResearch
                                       THEN InlineBrief(chat.messageContent)
                                       ELSE @]
         ELSE /\ chat' = Thrown(chat, IF chat.shouldResearch THEN "research-start"
                                      ELSE "chat-send")
              /\ fn' = fn
  /\ UNCHANGED <<beyondDispatch, taskRuns, messages, testMessages>>

\* lines 102-113 and 149-157: the checks on the function's response
AwaitResponse ==
  /\ chat.pc = "await"
  /\ fn.pc = "done"
  /\ chat' = IF fn.resp # 200 \/ fn.error
               THEN Thrown(chat, fn.name)
             ELSE IF chat.shouldResearch
               THEN [chat EXCEPT !.pc = "dispatched", !.run_id = fn.run_id]
             ELSE [chat EXCEPT !.pc = "reply"]
  /\ UNCHANGED <<beyondDispatch, taskRuns, messages, fn, testMessages>>

\* lines 159-164: the "Research Dispatched" message carrying the run id
InsertDispatched ==
  /\ chat.pc = "dispatched"
  /\ \E dbOk \in BOOLEAN :
       LET r == addMessage("research",
                           Texts(<<"Research Dispatched", "Task ID:", chat.run_id>>),
                           [run_id |-> chat.run_id, status |-> "started"], dbOk)
       IN  /\ messages' = r.messages
           /\ testMessages' = r.testMessages
           /\ chat' = IF r.threw THEN Thrown(chat, "dispatched insert") ELSE Finally(chat)
  /\ UNCHANGED <<beyondDispatch, taskRuns, fn>>

\* lines 115-119: the assistant's reply
InsertReply ==
  /\ chat.pc = "reply"
  /\ \E dbOk \in BOOLEAN :
       LET r == addMessage("assistant", Texts(<<"reply">>), NoMetadata, dbOk)
       IN  /\ messages' = r.messages
           /\ testMessages' = r.testMessages
           /\ chat' = IF r.threw THEN Thrown(chat, "reply insert") ELSE Finally(chat)
  /\ UNCHANGED <<beyondDispatch, taskRuns, fn>>

\* lines 78-88: the catch block awaits addMessage('system', ...) and the finally
\* block runs whether or not that call throws
CatchError ==
  /\ chat.pc = "catch"
  /\ \E dbOk \in BOOLEAN :
       LET r == addMessage("system", Texts(<<"Error Processing Message">>),
                           ErrorMetadata, dbOk)
       IN  /\ messages' = r.messages
           /\ testMessages' = r.testMessages
           /\ chat' = [Finally(chat) EXCEPT !.rejected = r.threw]
  /\ UNCHANGED <<beyondDispatch, taskRuns, fn>>

\* ------------------------------------------------- research-start, chat-send

\* the run id the provider assigns to the task it accepts
NewRun == "run_7"
\* a property the response lacks reads undefined
Undefined == "undefined"

\* what the provider call can come to: fetch rejects, a non-2xx status, a 2xx
\* body that is no JSON, a 2xx JSON body without the expected field, success
ProviderReplies == {"neterr", "notok", "badjson", "nofield", "ok"}

\* the catch block of the function: a 500 response with an error body
FnFail(F, cause) ==
  [F EXCEPT !.pc = "done", !.resp = 500, !.error = TRUE, !.cause = cause]
\* `${supabaseUrl}/functions/v1/research-stream/${runId}`: the path segments
StreamUrl(runId) == <<"functions", "v1", "research-stream", runId>>

\* a 200 response
FnSucceed(F) == [F EXCEPT !.pc = "done", !.resp = 200]

\* research-start/index.ts lines 30-34 (part_001 lines 30-34): the credential
\* check, before the client is created and the request read
StartCheckKey ==
  /\ fn.name = "research-start"
  /\ fn.pc = "key"
  /\ fn' = IF parallelApiKey = Null THEN FnFail(fn, "key")
           ELSE [fn EXCEPT !.pc = IF fn.variant = 1 THEN "session" ELSE "provider"]
  /\ UNCHANGED <<beyondDispatch, taskRuns, messages, chat, testMessages>>

\* research-start/index.ts lines 44-78: the session is looked up and, when the
\* lookup finds none, created
StartVerifySession ==
  /\ fn.name = "research-start"
  /\ fn.pc = "session"
  /\ \E found \in BOOLEAN, createOk \in BOOLEAN :
       fn' = IF found THEN [fn EXCEPT !.pc = "provider"]
             ELSE IF createOk
               THEN [fn EXCEPT !.pc = "provider", !.wrote = @ \cup {"chat_sessions"}]
             ELSE FnFail(fn, "session")
  /\ UNCHANGED <<beyondDispatch, taskRuns, messages, chat, testMessages>>

\* where the run id check of lines 166-173 sends a 2xx reply without run_id: the
\* file under src/unnamed has no such check and goes on with undefined
AfterReply(F, reply) ==
  IF reply = "ok" THEN [F EXCEPT !.pc = "row", !.run_id = NewRun]
  ELSE IF reply = "nofield" /\ F.variant = 2
    THEN [F EXCEPT !.pc = "row", !.run_id = Undefined]
  ELSE FnFail(F, reply)

\* research-start/index.ts lines 105-173 (part_001 lines 68-84): the provider call
StartCallProvider ==
  /\ fn.name = "research-start"
  /\ fn.pc = "provider"
  /\ \E reply \in ProviderReplies :
       fn' = AfterReply([fn EXCEPT !.calls = @ + 1, !.reply = reply], reply)
  /\ UNCHANGED <<beyondDispatch, taskRuns, messages, chat, testMessages>>

\* the task_runs row of a dispatched run
QueuedRow(session_id) ==
  [session_id |-> session_id, status |-> "queued", completed_at |-> Null,
   result |-> Null]

\* supabase.from('task_runs').insert(row): the table with the row under its
\* parallel_run_id
DbInsertRun(table, run_id, row) ==
  [r \in DOMAIN table \cup {run_id} |-> IF r = run_id THEN row ELSE table[r]]

\* the row insert's error left unchecked: the handler goes on to the message
AfterRowInsertUnchecked(F, dbOk) ==
  [F EXCEPT !.pc = "message", !.wrote = IF dbOk THEN @ \cup {"task_runs"} ELSE @]

\* lines 195-198 (part_001 lines 95-98): a datastore error at the row insert is
\* thrown, so the message insert is not reached
AfterRowInsert(F, dbOk) ==
  IF dbOk THEN [F EXCEPT !.pc = "message", !.wrote = @ \cup {"task_runs"}]
  ELSE FnFail(F, "row")

\* research-start/index.ts lines 184-198 (part_001 lines 86-98)
StartInsertRow ==
  /\ fn.name = "research-start"
  /\ fn.pc = "row"
  /\ \E dbOk \in BOOLEAN :
       /\ taskRuns' = IF dbOk
                        THEN DbInsertRun(taskRuns, fn.run_id, QueuedRow(chat.sessionId))
                        ELSE taskRuns
       /\ fn' = AfterRowInsert(fn, dbOk)
  /\ UNCHANGED <<beyondDispatch, messages, chat, testMessages>>

\* research-start/index.ts lines 203-227 (part_001 lines 100-116): the "Research
\* Started" message, whose insert error is at most logged, then the 200 response
StartInsertMessage ==
  /\ fn.name = "research-start"
  /\ fn.pc = "message"
  /\ \E dbOk \in BOOLEAN :
       /\ messages' =
            DbInsertMessage(messages,
                            Message(chat.sessionId, "research",
                                    Texts(<<"Research Started", "Task ID:", fn.run_id>>),
                                    [run_id |-> fn.run_id, status |-> "started"], 0),
                            dbOk)
       /\ fn' = FnSucceed([fn EXCEPT
                             !.wrote = IF dbOk THEN @ \cup {"messages"} ELSE @,
                             !.body = [run_id |-> fn.run_id,
                                       sse_url |-> StreamUrl(fn.run_id),
                                       status |-> "started"]])
  /\ UNCHANGED <<beyondDispatch, taskRuns, chat, testMessages>>

\* chat-send/index.ts lines 27-31: the credential check
SendCheckKey ==
  /\ fn.name = "chat-send"
  /\ fn.pc = "key"
  /\ fn' = IF geminiApiKey = Null THEN FnFail(fn, "key") ELSE [fn EXCEPT !.pc = "history"]
  /\ UNCHANGED <<beyondDispatch, taskRuns, messages, chat, testMessages>>

\* lines 49-54 of chat-send and 58-63 of chat-plan: filter, in order
RECURSIVE FilterChat(_)
FilterChat(rows) ==
  IF rows = <<>> THEN <<>>
  ELSE IF Head(rows).role \in {"user", "assistant"}
    THEN <<Head(rows)>> \o FilterChat(Tail(rows))
    ELSE FilterChat(Tail(rows))

\* what a session holds after an earlier chat turn, a dispatch and an error
EarlierTurns ==
  <<[StartedMessage EXCEPT !.role = "user", !.content = Texts(<<"Hello">>),
                           !.run_id = "undefined", !.status = "undefined"],
    [StartedMessage EXCEPT !.role = "assistant", !.content = Texts(<<"Hi there">>),
                           !.run_id = "undefined", !.status = "undefined"],
    StartedMessage,
    [StartedMessage EXCEPT !.role = "system", !.content = Texts(<<"Error">>),
                           !.run_id = "undefined", !.status = "undefined",
                           !.error = TRUE]>>

\* .eq('session_id', sessionId).order('created_at'): the session's rows in
\* creation order
RECURSIVE SessionRows(_, _)
SessionRows(rows, sessionId) ==
  IF rows = <<>> THEN <<>>
  ELSE IF Head(rows).session_id = sessionId
    THEN <<Head(rows)>> \o SessionRows(Tail(rows), sessionId)
    ELSE SessionRows(Tail(rows), sessionId)

\* chat-send/index.ts lines 49-60: user and assistant rows mapped to the
\* provider's roles, then the request's message pushed as a user turn
GeminiTurn(row) ==
  [role |-> IF row.role = "user" THEN "user" ELSE "model", parts |-> row.content]
geminiMessages(rows, message) ==
  LET kept == FilterChat(rows)
  IN  [i \in 1..Len(kept) |-> GeminiTurn(kept[i])]
        \o <<[role |-> "user", parts |-> message]>>

\* chat-send/index.ts lines 36-60: the history query, its error thrown, and
\* the conversation built from it
SendFetchHistory ==
  /\ fn.name = "chat-send"
  /\ fn.pc = "history"
  /\ \E dbOk \in BOOLEAN :
       fn' = IF dbOk
               THEN [fn EXCEPT !.pc = "provider",
                               !.request = geminiMessages(
                                             SessionRows(messages, chat.sessionId),
                                             Texts(chat.messageContent))]
               ELSE FnFail(fn, "history")
  /\ UNCHANGED <<beyondDispatch, taskRuns, messages, chat, testMessages>>

\* chat-send/index.ts lines 64-127: the model call; every failure is thrown and
\* a reply without content is one of them
SendCallProvider ==
  /\ fn.name = "chat-send"
  /\ fn.pc = "provider"
  /\ \E reply \in ProviderReplies :
       fn' = IF reply = "ok" THEN FnSucceed([fn EXCEPT !.calls = @ + 1, !.reply = reply])
             ELSE FnFail([fn EXCEPT !.calls = @ + 1, !.reply = reply], reply)
  /\ UNCHANGED <<beyondDispatch, taskRuns, messages, chat, testMessages>>

\* ----------------------------------------------- chat-plan, the brief builder

\* chat-plan/index.ts line 131 (part_000 line 122)
requiredFields ==
  {"objective", "constraints", "target_sources", "disallowed_sources",
   "timebox_minutes", "expected_output_fields", "summary"}

\* a brief as the planning prompt asks for it
PlannedBrief(objective) ==
  [objective |-> objective,
   constraints |-> <<"none">>,
   target_sources |-> <<"academic", "news", "web", "technical_docs">>,
   disallowed_sources |-> <<"social_media", "forums">>,
   timebox_minutes |-> 5,
   expected_output_fields |-> <<"summary", "key_facts", "sources", "recommendations">>,
   summary |-> <<"Brief summary">>]

\* the object without one of its keys
Without(object, field) == [f \in DOMAIN object \ {field} |-> object[f]]

\* objectives the model may write: its own wording, or the user's words
PlannedObjectives == { <<"p", "l", "a", "n">>, <<"S", "t", "u", "d", "y", " ", "x">> }

\* the text the model returns: no JSON, JSON that is no object, a brief object,
\* or a brief object that lacks one required field
PlanContents ==
  {[json |-> FALSE, object |-> FALSE, value |-> [field \in {} |-> Null]],
   [json |-> TRUE, object |-> FALSE, value |-> [field \in {} |-> Null]]}
  \cup {[json |-> TRUE, object |-> TRUE, value |-> PlannedBrief(o)] :
          o \in PlannedObjectives}
  \cup {[json |-> TRUE, object |-> TRUE,
         value |-> Without(PlannedBrief(<<"p", "l", "a", "n">>), f)] :
          f \in requiredFields}

\* chat-plan/index.ts lines 120-136 (part_000 lines 112-127): JSON.parse in a
\* try block, then the in-operator for every required field, which throws a
\* TypeError on a value that is no object
ValidBrief(content) ==
  /\ content.json
  /\ content.object
  /\ \A field \in requiredFields : field \in DOMAIN content.value

\* a POST to chat-plan arrives
PlanRequest ==
  /\ plan.pc = "idle"
  /\ plan' = [plan EXCEPT !.pc = "key"]
  /\ UNCHANGED beyondPlan

\* the catch block of chat-plan: a 500 response with an error body
PlanFail(P) == [P EXCEPT !.pc = "done", !.resp = 500, !.error = TRUE]

\* chat-plan/index.ts lines 36-40: the credential check
PlanCheckKey ==
  /\ plan.pc = "key"
  /\ plan' = IF geminiApiKey = Null THEN PlanFail(plan) ELSE [plan EXCEPT !.pc = "history"]
  /\ UNCHANGED beyondPlan

\* chat-plan/index.ts lines 45-55: the history query; its error is thrown
PlanFetchHistory ==
  /\ plan.pc = "history"
  /\ \E dbOk \in BOOLEAN :
       plan' = IF dbOk THEN [plan EXCEPT !.pc = "provider"] ELSE PlanFail(plan)
  /\ UNCHANGED beyondPlan

\* chat-plan/index.ts lines 87-140: the model call, the parse, the validation,
\* and the 200 response with the brief
PlanCallProvider ==
  /\ plan.pc = "provider"
  /\ \/ \E reply \in {"neterr", "notok", "nofield"} :
          plan' = PlanFail([plan EXCEPT !.calls = @ + 1, !.content = reply])
     \/ \E content \in PlanContents :
          plan' = IF ValidBrief(content)
                    THEN [plan EXCEPT !.pc = "done", !.resp = 200, !.calls = @ + 1,
                                      !.content = "text", !.body = content.value,
                                      !.validated = @ \cup {content.value}]
                    ELSE PlanFail([plan EXCEPT !.calls = @ + 1, !.content = "text",
                                               !.body = content.value])
  /\ UNCHANGED beyondPlan

\* src/lib/gemini.ts lines 114-142, GeminiService.createResearchPlan: the parsed
\* JSON is returned as it is; only a text that is no JSON throws.  One call
createResearchPlan ==
  /\ plan.pc = "idle"
  /\ plan.created = {}
  /\ ~plan.threw
  /\ \E content \in PlanContents :
       plan' = IF content.json
                 THEN [plan EXCEPT !.created = {content.value}]
                 ELSE [plan EXCEPT !.threw = TRUE]
  /\ UNCHANGED beyondPlan

\* ------------------------------------------------------------ SpecDispatch

\* the chat area is mounted for a signed-in user; the session is selected or
\* not, the store is remote or local, either research-start file is deployed,
\* and each credential is configured or not
InitDispatch ==
  /\ variant = 1
  /\ webhookSecret = Null
  /\ handlers = [h \in Handlers |-> IdleHandler]
  /\ parallelApiKey \in {Null, ConfiguredParallelKey}
  /\ geminiApiKey \in {Null, ConfiguredGeminiKey}
  /\ taskRuns = [r \in {} |-> QueuedRow(OwningSession)]
  /\ messages \in {<<>>, EarlierTurns}
  /\ testMessages = <<>>
  /\ \E sessionId \in {Null, OwningSession}, isTestMode \in BOOLEAN :
       chat = [IdleChat EXCEPT !.user = TRUE, !.sessionId = sessionId,
                               !.isTestMode = isTestMode]
  /\ \E v \in {1, 2} : fn = [IdleFn EXCEPT !.variant = v]
  /\ plan = IdlePlan
  /\ hook = IdleHook
  /\ relay = IdleRelay
  /\ backend = IdleBackend
  /\ view = IdleView
  /\ area = IdleArea
  /\ store = IdleStore
  /\ query = IdleQuery

NextDispatch ==
  \/ TypeInput
  \/ handleSendMessage
  \/ AddUserMessage
  \/ UpdateLastActivity
  \/ AnnounceResearch
  \/ InvokeFunction
  \/ StartCheckKey
  \/ StartVerifySession
  \/ StartCallProvider
  \/ StartInsertRow
  \/ StartInsertMessage
  \/ SendCheckKey
  \/ SendFetchHistory
  \/ SendCallProvider
  \/ AwaitResponse
  \/ InsertDispatched
  \/ InsertReply
  \/ CatchError
  \/ PlanRequest
  \/ PlanCheckKey
  \/ PlanFetchHistory
  \/ PlanCallProvider
  \/ createResearchPlan

SpecDispatch == InitDispatch /\ [][NextDispatch]_vars

\* ------------------------------------------------------ claims, dispatch

\* the messages of either store that carry run id r in their metadata
Carrying(r) ==
  {m \in {messages[i] : i \in DOMAIN messages}
         \cup {testMessages[i] : i \in DOMAIN testMessages} : m.run_id = r}

\* C11: whenever a message carrying the run id R of a dispatched run exists, in
\* the datastore or in the local store, the task_runs row for R exists (rows are
\* never deleted, so the row was persisted first); and when persisting the row
\* failed, no message carries R.
C11_RowBeforeStartedMessage ==
  /\ Carrying(NewRun) # {} => NewRun \in DOMAIN taskRuns
  /\ fn.cause = "row" => Carrying(NewRun) = {}

\* C11 witness: research-start has inserted its "Research Started" message for
\* the run, after the row
C11_Witness ==
  \E i \in DOMAIN messages :
    /\ messages[i].run_id = NewRun
    /\ messages[i].role = "research"
    /\ messages[i].status = "started"
    /\ "messages" \in fn.wrote

\* indices of the session's messages that are system messages flagged as
\* retryable errors
RetryableErrors ==
  {i \in DOMAIN SessionMessages :
     /\ SessionMessages[i].role = "system"
     /\ SessionMessages[i].error
     /\ SessionMessages[i].retryable}

\* C12: when the provider call of research-start ends in a network failure, a
\* non-2xx response or a 2xx response without run_id, the function writes neither
\* task_runs nor messages and answers with an error, and the finished send has
\* left exactly one retryable system error message in the session.
C12_DispatchFailure ==
  (fn.name = "research-start" /\ fn.reply \in {"neterr", "notok", "nofield"}) =>
     /\ fn.wrote \cap {"task_runs", "messages"} = {}
     /\ fn.pc = "done" /\ fn.resp # 200 /\ fn.error
     /\ chat.pc = "done" => Cardinality(RetryableErrors) = 1

\* a message that ends a send for the user: the assistant's reply, the
\* "Research Dispatched" message, or a system message flagged as an error
TerminalOutcome(m) ==
  \/ m.role = "assistant"
  \/ m.role = "research" /\ Names(m.content, "Research Dispatched")
  \/ m.role = "system" /\ m.error

\* C13: a handleSendMessage call that passed its entry guard and has returned
\* leaves sending and researching false and at least one terminal outcome
\* message in the session, whichever of its steps failed.
C13_TerminalFeedback ==
  chat.pc = "done" =>
    /\ ~chat.sending
    /\ ~chat.researching
    /\ \E i \in DOMAIN SessionMessages : TerminalOutcome(SessionMessages[i])

\* C14: the brief of every request that reaches research-start holds all seven
\* required fields and is a brief chat-plan validated and returned; and a model
\* reply that is no JSON or lacks a required field makes chat-plan answer with
\* an error, and no dispatch carries that reply.
C14_BriefCompleteness ==
  /\ (fn.name = "research-start" /\ fn.pc # "idle") =>
       /\ requiredFields \subseteq DOMAIN fn.brief
       /\ fn.brief \in plan.validated
  /\ (plan.pc = "done" /\ plan.content = "text" /\ plan.validated = {}) =>
       /\ plan.resp = 500
       /\ plan.error
       /\ fn.name = "research-start" => fn.brief # plan.body

\* ---------------------------------------------------- claims, credentials

\* C15 (parallel-webhook): while PARALLEL_API_KEY is not configured, a webhook
\* invocation for a completed run, which needs the key to fetch the result,
\* neither updates task_runs nor calls the provider nor inserts a message.
C15_ConfigurationAbortsEarly ==
  parallelApiKey = Null =>
    \A h \in Handlers :
      handlers[h].status = "completed" =>
        /\ ~handlers[h].touched
        /\ handlers[h].fetched = "none"
        /\ InsertedBy(h) = {}

\* ======================================================================
\* useResearchProgress (src/unnamed/part_004)
\* ======================================================================

\* terminal signals handled in one behaviour
MaxSignals == 2
\* reconnect timeouts pending at once
MaxTimers == 1
\* progress events kept in liveUpdates
MaxUpdates == 1

\* part_004 lines 40-41
FILL_DURATION_MS == 600000
COMPLETION_SNAP_MS == 400

Min(a, b) == IF a < b THEN a ELSE b

\* line 64: Math.min((elapsed / FILL_DURATION_MS) * 100, 100), to the percent
FillProgress(elapsed) == Min((elapsed * 100) \div FILL_DURATION_MS, 100)

\* lines 87-89: the progress a snap interval shows after elapsed milliseconds
SnapProgress(startProgress, elapsed) ==
  startProgress
    + ((100 - startProgress) * Min(elapsed, COMPLETION_SNAP_MS)) \div COMPLETION_SNAP_MS

\* lines 132-193, setupSSE: one EventSource at a time
setupSSE(H) ==
  IF H.eventSource THEN H
  ELSE [H EXCEPT !.eventSource = TRUE, !.hasSSE = TRUE, !.openSources = @ + 1]

\* lines 196-236, setupWebhookSubscription: one subscription at a time
setupWebhookSubscription(H) ==
  IF H.webhookSubscription THEN H ELSE [H EXCEPT !.webhookSubscription = TRUE]

\* lines 74-99, snapToComplete: the completion flag, the fill interval cleared,
\* and a snap interval started
snapToComplete(H, finalStatus) ==
  [H EXCEPT !.isCompleteRef = TRUE, !.progressInterval = FALSE,
            !.snaps[finalStatus] = @ + 1]

\* lines 102-108, fetchResult up to its await: one more request in flight
fetchResult(H) == [H EXCEPT !.fetches = @ + 1]

\* lines 239-260
startProgress ==
  /\ hook' = IF hook.progressInterval THEN hook
             ELSE setupWebhookSubscription(setupSSE(
                    [hook EXCEPT !.status = "running_filling", !.progress = 0,
                                 !.error = Null, !.result = Null, !.liveUpdates = 0,
                                 !.isCompleteRef = FALSE, !.progressInterval = TRUE,
                                 !.capturedStatus = hook.status,
                                 !.capturedProgress = hook.progress,
                                 !.canceled = FALSE]))
  /\ UNCHANGED beyondHook

\* lines 60-71, updateProgress as the fill interval calls it: the callback is
\* the one of the render in which startProgress was called
updateProgress ==
  /\ hook.progressInterval
  /\ \E elapsed \in {FILL_DURATION_MS \div 2, FILL_DURATION_MS, 2 * FILL_DURATION_MS} :
       hook' = IF hook.isCompleteRef THEN hook
               ELSE [hook EXCEPT
                       !.progress = FillProgress(elapsed),
                       !.status = IF FillProgress(elapsed) >= 100
                                     /\ hook.capturedStatus = "running_filling"
                                    THEN "running_full_waiting" ELSE @]
  /\ UNCHANGED beyondHook

\* events the stream may carry: a state event with a status, a progress event,
\* data that is no JSON
StreamEvents ==
  {[type |-> "task_run.state", status |-> st] :
     st \in {"running", "completed", "failed", "canceled"}}
  \cup {[type |-> "task_run.progress_", status |-> Null],
        [type |-> "nojson", status |-> Null]}

\* lines 145-172, eventSource.onmessage
OnMessage ==
  /\ hook.eventSource
  /\ \E event \in StreamEvents :
       IF event.type = "task_run.state" /\ event.status \in {"completed", "failed"}
         THEN /\ hook.signals < MaxSignals
              /\ hook' = fetchResult([hook EXCEPT !.signals = @ + 1,
                                                  !.observed = @ \cup {event.status}])
       ELSE IF event.type = "task_run.state" /\ event.status \in TerminalStatuses
         THEN hook' = [hook EXCEPT !.observed = @ \cup {event.status}]
       ELSE IF event.type = "task_run.progress_"
         THEN hook' = [hook EXCEPT !.liveUpdates = Min(@ + 1, MaxUpdates)]
       ELSE hook' = hook
  /\ UNCHANGED beyondHook

\* lines 174-187, eventSource.onerror: close, and a reconnect in five seconds
OnError ==
  /\ hook.eventSource
  /\ hook.timers < MaxTimers
  /\ hook' = [hook EXCEPT !.eventSource = FALSE, !.openSources = @ - 1,
                          !.timers = @ + 1]
  /\ UNCHANGED beyondHook

\* a reconnect timeout that does not look at the completion flag
ReconnectRegardless ==
  /\ hook.timers > 0
  /\ hook' = setupSSE([hook EXCEPT !.timers = @ - 1,
                                   !.reopened = @ \/ ~hook.eventSource])
  /\ UNCHANGED beyondHook

\* lines 182-186: the reconnect timeout fires
ReconnectTimeout ==
  /\ hook.timers > 0
  /\ hook' = IF hook.isCompleteRef
               THEN [hook EXCEPT !.timers = @ - 1, !.suppressed = TRUE]
               ELSE setupSSE([hook EXCEPT !.timers = @ - 1,
                                          !.reopened = @ \/ ~hook.eventSource])
  /\ UNCHANGED beyondHook

\* the result column of an updated task_runs row: empty, an object, a string
\* holding JSON, a string holding none
RowResults == {Null, "object", "json string", "plain string"}

\* lines 216-224: a string is parsed, and kept as it is when that fails
ParsedResult(result) == IF result = "json string" THEN "object" ELSE result

\* lines 210-233: the change-feed callback for an UPDATE of the run's row
OnRowUpdate ==
  /\ hook.webhookSubscription
  /\ \E status \in TaskStatuses, result \in RowResults :
       IF status \in {"completed", "failed"}
         THEN /\ hook.signals < MaxSignals
              /\ hook' =
                   IF result # Null
                     THEN snapToComplete([hook EXCEPT !.signals = @ + 1,
                                                      !.observed = @ \cup {status},
                                                      !.result = ParsedResult(result)],
                                         status)
                     ELSE fetchResult([hook EXCEPT !.signals = @ + 1,
                                                   !.observed = @ \cup {status}])
         ELSE IF status \in TerminalStatuses
           THEN hook' = [hook EXCEPT !.observed = @ \cup {status}]
         ELSE hook' = hook
  /\ UNCHANGED beyondHook

\* lines 110-128, fetchResult after its await: the result and a snap to
\* completed, or the error and a snap to failed
FetchResultSettles ==
  /\ hook.fetches > 0
  /\ \E ok \in BOOLEAN :
       hook' = IF ok
                 THEN snapToComplete([hook EXCEPT !.fetches = @ - 1, !.result = "object"],
                                     "completed")
                 ELSE snapToComplete([hook EXCEPT !.fetches = @ - 1,
                                                  !.error = "Failed to fetch result"],
                                     "failed")
  /\ UNCHANGED beyondHook

\* lines 86-98: a tick of a snap interval; at the end of the snap it clears
\* itself and sets the final status
SnapTick ==
  /\ \E finalStatus \in {"completed", "failed"}, elapsed \in {COMPLETION_SNAP_MS \div 2,
                                                              COMPLETION_SNAP_MS} :
       /\ hook.snaps[finalStatus] > 0
       /\ hook' = IF elapsed >= COMPLETION_SNAP_MS
                    THEN [hook EXCEPT !.progress = 100, !.status = finalStatus,
                                      !.snaps[finalStatus] = @ - 1]
                    ELSE [hook EXCEPT
                            !.progress = SnapProgress(hook.capturedProgress, elapsed)]
  /\ UNCHANGED beyondHook

\* lines 263-286, cancelProgress
cancelProgress ==
  /\ hook' = [hook EXCEPT !.isCompleteRef = TRUE, !.progressInterval = FALSE,
                          !.eventSource = FALSE, !.webhookSubscription = FALSE,
                          !.openSources = IF hook.eventSource THEN @ - 1 ELSE @,
                          !.status = "idle", !.progress = 0, !.canceled = TRUE]
  /\ UNCHANGED beyondHook

InitProgress ==
  /\ variant = 1
  /\ webhookSecret = Null
  /\ handlers = [h \in Handlers |-> IdleHandler]
  /\ parallelApiKey = ConfiguredParallelKey
  /\ geminiApiKey = ConfiguredGeminiKey
  /\ taskRuns = [r \in {PersistedRun} |-> QueuedRow(OwningSession)]
  /\ messages = <<StartedMessage>>
  /\ testMessages = <<>>
  /\ chat = IdleChat
  /\ fn = IdleFn
  /\ plan = IdlePlan
  /\ hook = IdleHook
  /\ relay = IdleRelay
  /\ backend = IdleBackend
  /\ view = IdleView
  /\ area = IdleArea
  /\ store = IdleStore
  /\ query = IdleQuery

NextProgress ==
  \/ startProgress
  \/ updateProgress
  \/ OnMessage
  \/ OnError
  \/ ReconnectTimeout
  \/ OnRowUpdate
  \/ FetchResultSettles
  \/ SnapTick
  \/ cancelProgress

SpecProgress == InitProgress /\ [][NextProgress]_vars

\* C16: once a terminal signal has been handled and the completion flag is
\* set, handling a later terminal signal of the same run starts no result
\* fetch and leaves result, error and status as they were.
C16_FirstSignalWins ==
  [][(hook.isCompleteRef /\ ~hook.canceled /\ hook.signals > 0
        /\ hook'.signals > hook.signals)
       => /\ hook'.fetches = hook.fetches
          /\ hook'.result = hook.result
          /\ hook'.error = hook.error
          /\ hook'.status = hook.status]_vars

\* C17: from the return of cancelProgress to the next startProgress the
\* EventSource and the subscription are closed, status is idle and progress
\* is 0.
C17_CancelStaysIdle ==
  hook.canceled => /\ ~hook.eventSource
                   /\ ~hook.webhookSubscription
                   /\ hook.status = "idle"
                   /\ hook.progress = 0

\* ======================================================================
\* research-stream (supabase/functions/research-stream/index.ts)
\* ======================================================================

\* chunks the provider's event stream delivers before it ends or fails
MaxChunks == 3

\* the byte chunks a read of the provider's stream may return
Chunks == {"c1", "c2"}

\* the last segment of the request path (line 25)
PathRunIds == {PersistedRun, "research-stream", ""}

\* the provider's answer to the events request: no connection, a status that
\* is not 2xx, a 2xx response without a body, a 2xx response with a body
EventsReplies == {"neterr", "notok", "nobody", "body"}

\* controller.close(): closes a readable stream once its queue is drained,
\* and throws a TypeError on a stream that is closed, errored or closing
ControllerClose(R) ==
  IF R.state = "readable" /\ ~R.closeRequested
    THEN IF R.queue = <<>>
           THEN [R EXCEPT !.attempts = @ + 1, !.state = "closed", !.terminated = @ + 1]
           ELSE [R EXCEPT !.attempts = @ + 1, !.closeRequested = TRUE]
    ELSE [R EXCEPT !.attempts = @ + 1, !.threw = TRUE]

\* controller.error(e): resets the queue and errors a readable stream, and
\* does nothing on any other
ControllerError(R) ==
  IF R.state = "readable"
    THEN [R EXCEPT !.attempts = @ + 1, !.queue = <<>>, !.state = "errored",
                   !.terminated = @ + 1]
    ELSE [R EXCEPT !.attempts = @ + 1]

\* whether controller.enqueue(value) is permitted
CanEnqueue(R) == R.state = "readable" /\ ~R.closeRequested

\* lines 65-71: the catch block and the finally block after it
CatchAndFinally(R) == [ControllerClose(ControllerError(R)) EXCEPT !.pc = "settled"]

\* lines 68-71: the finally block alone
FinallyClose(R) == [ControllerClose(R) EXCEPT !.pc = "settled"]

\* lines 84-92
StreamFail(R) == [R EXCEPT !.pc = "settled", !.resp = 500]

\* lines 15-55 and 75-82: the handler up to the first read of the start function
StreamRequest ==
  /\ relay.pc = "idle"
  /\ \E runId \in PathRunIds, reply \in EventsReplies :
       relay' =
         IF parallelApiKey = Null THEN StreamFail(relay)
         ELSE IF runId = "" \/ runId = "research-stream" THEN StreamFail(relay)
         ELSE IF reply \in {"neterr", "notok"}
           THEN StreamFail([relay EXCEPT !.calls = 1])
         ELSE IF reply = "nobody"
           THEN [ControllerClose([relay EXCEPT !.calls = 1, !.state = "readable"])
                   EXCEPT !.pc = "settled", !.resp = 200]
         ELSE [relay EXCEPT !.calls = 1, !.state = "readable", !.pc = "reading",
                            !.resp = 200]
  /\ UNCHANGED beyondRelay

\* lines 59-63: a read returns a chunk and the chunk is enqueued; an enqueue
\* that is not permitted throws into the catch block
ReadChunk ==
  /\ relay.pc = "reading"
  /\ Len(relay.upstream) < MaxChunks
  /\ \E value \in Chunks :
       relay' = IF CanEnqueue(relay)
                  THEN [relay EXCEPT !.upstream = Append(@, value),
                                     !.queue = Append(@, value)]
                  ELSE CatchAndFinally([relay EXCEPT !.upstream = Append(@, value)])
  /\ UNCHANGED beyondRelay

\* lines 59-60 and 68-71: a read returns done
ReadDone ==
  /\ relay.pc = "reading"
  /\ relay' = FinallyClose([relay EXCEPT !.ended = "done"])
  /\ UNCHANGED beyondRelay

\* lines 59 and 65-71: a read rejects
ReadFails ==
  /\ relay.pc = "reading"
  /\ relay' = CatchAndFinally([relay EXCEPT !.ended = "failed"])
  /\ UNCHANGED beyondRelay

\* the client takes the next chunk of the response body; taking the last
\* chunk of a closing stream closes it
ClientTakes ==
  /\ relay.state = "readable"
  /\ relay.queue # <<>>
  /\ relay' = [relay EXCEPT
                 !.delivered = Append(@, Head(relay.queue)),
                 !.queue = Tail(@),
                 !.state = IF relay.closeRequested /\ Tail(relay.queue) = <<>>
                             THEN "closed" ELSE @,
                 !.terminated = IF relay.closeRequested /\ Tail(relay.queue) = <<>>
                                  THEN @ + 1 ELSE @]
  /\ UNCHANGED beyondRelay

\* the client goes away: the response body is cancelled; the start function
\* declares no cancel callback
ClientCancels ==
  /\ relay.state = "readable"
  /\ relay' = [relay EXCEPT !.queue = <<>>, !.state = "closed",
                            !.terminated = @ + 1, !.cancelled = TRUE]
  /\ UNCHANGED beyondRelay

InitStream ==
  /\ variant = 1
  /\ webhookSecret = Null
  /\ handlers = [h \in Handlers |-> IdleHandler]
  /\ parallelApiKey \in {Null, ConfiguredParallelKey}
  /\ geminiApiKey = ConfiguredGeminiKey
  /\ taskRuns = [r \in {PersistedRun} |-> QueuedRow(OwningSession)]
  /\ messages = <<StartedMessage>>
  /\ testMessages = <<>>
  /\ chat = IdleChat
  /\ fn = IdleFn
  /\ plan = IdlePlan
  /\ hook = IdleHook
  /\ relay = IdleRelay
  /\ backend = IdleBackend
  /\ view = IdleView
  /\ area = IdleArea
  /\ store = IdleStore
  /\ query = IdleQuery

NextStream ==
  \/ StreamRequest
  \/ ReadChunk
  \/ ReadDone
  \/ ReadFails
  \/ ClientTakes
  \/ ClientCancels

SpecStream == InitStream /\ [][NextStream]_vars

IsPrefix(s, t) == Len(s) <= Len(t) /\ SubSeq(t, 1, Len(s)) = s

\* C18: the client receives the upstream chunks in upstream order, none
\* dropped, duplicated or altered; once the upstream stream has ended the
\* client stream closes cleanly, once an upstream read has failed it is
\* errored, and in both cases it is terminated exactly once.
C18_Relay ==
  ~relay.cancelled =>
    /\ IsPrefix(relay.delivered, relay.upstream)
    /\ relay.delivered \o relay.queue = relay.upstream
    /\ relay.ended = "done" => /\ relay.state = "closed" \/ relay.closeRequested
                               /\ ~relay.threw
                               /\ relay.attempts = 1
    /\ relay.ended = "failed" => /\ relay.state = "errored"
                                 /\ ~relay.threw
                                 /\ relay.attempts = 1
    /\ relay.terminated <= 1

\* ======================================================================
\* Message order: useMessages (src/components/LiveUpdatesPanel.tsx) and the
\* history queries of chat-send and chat-plan
\* ======================================================================

\* messages one session receives in one behaviour
MaxMessages == 3

\* who writes a message: the user's input, a chat reply, a research outcome
StoredRoles == {"user", "assistant", "research"}

\* new Date().toISOString(): the millisecond count as a string of fixed width,
\* here its last two digits
toISOString(ms) == <<(ms \div 10) % 10, ms % 10>>

\* a > b on two strings of digits of one width: the first place that differs
\* decides
StringGreater(a, b) ==
  \E i \in DOMAIN a : /\ a[i] > b[i]
                      /\ \A j \in DOMAIN a : j < i => a[j] = b[j]

Permutations(n) == {p \in [1..n -> 1..n] : \A i, j \in 1..n : p[i] = p[j] => i = j}

\* .order('created_at', {ascending: true}): the rows by ascending created_at,
\* rows of equal created_at in any order
OrderByCreatedAt(rows) ==
  {[i \in DOMAIN rows |-> rows[p[i]]] :
     p \in {q \in Permutations(Len(rows)) :
              \A i, j \in DOMAIN rows :
                i < j => rows[q[i]].created_at <= rows[q[j]].created_at}}

\* line 656: sort((a, b) => (a.created_at > b.created_at ? 1 : -1)).  The
\* comparator answers -1 both ways for equal created_at, so the order of such
\* elements is whatever the engine's sort makes of it
SortByComparator(list) ==
  {[i \in DOMAIN list |-> list[p[i]]] :
     p \in {q \in Permutations(Len(list)) :
              \A i, j \in DOMAIN list :
                i < j => ~StringGreater(list[q[i]].created_at, list[q[j]].created_at)}}

Received == Len(store.rows) + Len(store.list)

\* a row arrives in table messages (addMessage lines 753-766, or an insert
\* of an edge function): created_at DEFAULT now() of its own transaction,
\* later than that of every transaction that ended before
InsertRow ==
  /\ ~store.isTestMode
  /\ Received < MaxMessages
  /\ \E role \in StoredRoles :
       store' = [store EXCEPT
                   !.clock = @ + 1,
                   !.rows = Append(@, [id |-> Received + 1, role |-> role,
                                       created_at |-> store.clock + 1])]
  /\ UNCHANGED beyondStore

\* addMessage in test mode, lines 734-751: created_at is the browser's clock
\* in milliseconds, which need not have advanced since the call before
AddLocalMessage ==
  /\ store.isTestMode
  /\ Received < MaxMessages
  /\ \E role \in StoredRoles, elapsed \in {0, 1} :
       store' = [store EXCEPT
                   !.clock = @ + elapsed,
                   !.list = Append(@, [id |-> Received + 1, role |-> role,
                                       created_at |-> toISOString(store.clock + elapsed)])]
  /\ UNCHANGED beyondStore

\* fetchMessages, lines 646-677
fetchMessages ==
  /\ \E result \in IF store.isTestMode THEN SortByComparator(store.list)
                                        ELSE OrderByCreatedAt(store.rows) :
       store' = [store EXCEPT !.read = result, !.reader = "fetchMessages"]
  /\ UNCHANGED beyondStore

\* the history query of chat-send (lines 36-54) and of chat-plan (45-63)
FetchHistory ==
  /\ \E name \in {"chat-send", "chat-plan"}, result \in OrderByCreatedAt(store.rows) :
       store' = [store EXCEPT !.read = FilterChat(result), !.reader = name]
  /\ UNCHANGED beyondStore

InitOrder ==
  /\ variant = 1
  /\ webhookSecret = Null
  /\ handlers = [h \in Handlers |-> IdleHandler]
  /\ parallelApiKey = ConfiguredParallelKey
  /\ geminiApiKey = ConfiguredGeminiKey
  /\ taskRuns = [r \in {PersistedRun} |-> QueuedRow(OwningSession)]
  /\ messages = <<StartedMessage>>
  /\ testMessages = <<>>
  /\ chat = IdleChat
  /\ fn = IdleFn
  /\ plan = IdlePlan
  /\ hook = IdleHook
  /\ relay = IdleRelay
  /\ backend = IdleBackend
  /\ view = IdleView
  /\ area = IdleArea
  /\ query = IdleQuery
  /\ \E mode \in BOOLEAN : store = [IdleStore EXCEPT !.isTestMode = mode]

NextOrder ==
  \/ InsertRow
  \/ AddLocalMessage
  \/ fetchMessages
  \/ FetchHistory

SpecOrder == InitOrder /\ [][NextOrder]_vars

\* C19: every read of a session's messages returns them in the order in
\* which they arrived.
C19_OrderPreserved ==
  \A i, j \in DOMAIN store.read : i < j => store.read[i].id < store.read[j].id

\* ======================================================================
\* The classifier's calls (src/components/ChatArea.tsx lines 56, 223, 227)
\* ======================================================================

\* calls of isResearchQuery on one message
MaxCalls == 3

\* n code units that are part of no keyword
Filler(n) == [i \in 1..n |-> "q"]

\* words a message is built around: none, keywords in small letters, in
\* capitals and mixed, keywords cut short or broken up
QueryWords ==
  { <<>>,
    <<"s", "t", "u", "d", "y">>,
    <<"S", "t", "u", "d", "y">>,
    <<"S", "T", "U", "D", "Y">>,
    <<"s", "t", "u", "d">>,
    <<"s", "t", "u", " ", "d", "y">>,
    <<"I", "n", "-", "D", "e", "p", "t", "h">>,
    <<"i", "n", "d", "e", "p", "t", "h">>,
    <<"L", "o", "o", "k", " ", "i", "n", "t", "o">>,
    <<"l", "o", "o", "k", "i", "n", "t", "o">>,
    <<"H", "i">> }

\* the longest of QueryWords
MaxWord == 9

\* messages up to the length threshold and one code unit beyond it, with the
\* word at the start, after one code unit, or at the end
QueryMessages ==
  {Filler(before) \o word \o Filler(after) :
     before \in {0, 1}, word \in QueryWords,
     after \in {0, 1} \cup ((LengthThreshold - MaxWord - 2)..(LengthThreshold + 1))}

\* ChatArea.tsx line 56: handleSendMessage classifies the message
SendClassifies ==
  /\ query.calls < MaxCalls
  /\ query' = [query EXCEPT !.calls = @ + 1,
                            !.answers = @ \cup {isResearchQuery(query.message)}]
  /\ UNCHANGED beyondQuery

\* ChatArea.tsx lines 223 and 227: a render classifies the input for the
\* button's variant and again for its label
RenderClassifies ==
  /\ query.calls + 2 <= MaxCalls
  /\ query' = [query EXCEPT !.calls = @ + 2,
                            !.answers = (@ \cup {isResearchQuery(query.message)})
                                          \cup {isResearchQuery(query.message)}]
  /\ UNCHANGED beyondQuery

InitClassify ==
  /\ variant = 1
  /\ webhookSecret = Null
  /\ handlers = [h \in Handlers |-> IdleHandler]
  /\ parallelApiKey = ConfiguredParallelKey
  /\ geminiApiKey = ConfiguredGeminiKey
  /\ taskRuns = [r \in {PersistedRun} |-> QueuedRow(OwningSession)]
  /\ messages = <<StartedMessage>>
  /\ testMessages = <<>>
  /\ chat = IdleChat
  /\ fn = IdleFn
  /\ plan = IdlePlan
  /\ hook = IdleHook
  /\ relay = IdleRelay
  /\ backend = IdleBackend
  /\ view = IdleView
  /\ area = IdleArea
  /\ store = IdleStore
  /\ \E message \in QueryMessages : query = [IdleQuery EXCEPT !.message = message]

NextClassify ==
  \/ SendClassifies
  \/ RenderClassifies

SpecClassify == InitClassify /\ [][NextClassify]_vars

\* the small letter of a capital, any other code unit itself
SmallLetter(c) ==
  IF \E j \in DOMAIN UpperCase : UpperCase[j] = c
    THEN LowerCase[CHOOSE j \in DOMAIN UpperCase : UpperCase[j] = c]
    ELSE c

\* keyword stands in text at offset i, letter by letter, capitals taken for
\* their small letters
OccursAt(text, keyword, i) ==
  /\ i + Len(keyword) <= Len(text)
  /\ \A j \in DOMAIN keyword : SmallLetter(text[i + j]) = keyword[j]

NamesResearch(text) ==
  \E keyword \in researchKeywords : \E i \in 0..Len(text) : OccursAt(text, keyword, i)

\* C20: every call of isResearchQuery on a message returns the same boolean:
\* true exactly when the message holds a research keyword, whatever the case
\* of its letters, or is longer than 100 code units; the calls change nothing
\* but their own record.
C20_Classifier ==
  /\ [](query.calls > 0
          => query.answers = {NamesResearch(query.message) \/ Len(query.message) > 100})
  /\ [][query'.calls # query.calls
          => query'.message = query.message /\ UNCHANGED beyondQuery]_vars

\* a message of 101 code units without a keyword has been classified, by
\* every call as a research query
C20_Witness ==
  /\ query.calls = MaxCalls
  /\ Len(query.message) = LengthThreshold + 1
  /\ ~NamesResearch(query.message)
  /\ query.answers = {TRUE}

\* ======================================================================
\* Claims on the outcome of a completed webhook
\* ======================================================================

Holds(content, n, x) == \E i \in 1..Len(content) : content[i] = [n |-> n, text |-> x]

\* C21: the research message a completed webhook inserts for a provider result
\* {status, output: {summary, key_facts, sources}} holds the summary, every key
\* fact and every source with its number, and the footer with the run id, and
\* its metadata carries the run id.
C21_OutcomeContent ==
  \A i \in 1..Len(messages) :
    (messages[i].by # 0 /\ messages[i].role = "research")
      => LET content == messages[i].content
             output == ProviderResult.output
             run_id == handlers[messages[i].by].run_id
         IN /\ Holds(content, 0, output.summary)
            /\ \A k \in DOMAIN output.key_facts : Holds(content, k, output.key_facts[k])
            /\ \A k \in DOMAIN output.sources : Holds(content, k, output.sources[k])
            /\ Holds(content, 0, "Task ID:") /\ Holds(content, 0, run_id)
            /\ messages[i].run_id = run_id

\* C22: once a completed webhook with a retrievable result has inserted its
\* outcome message, the run's row holds status completed and the serialized
\* result; the result is there no later than the message.
C22_ResultPersisted ==
  \A i \in 1..Len(messages) :
    (messages[i].by # 0 /\ messages[i].role = "research")
      => LET run_id == handlers[messages[i].by].run_id
         IN /\ run_id \in DOMAIN taskRuns
            /\ taskRuns[run_id].status = "completed"
            /\ taskRuns[run_id].result # Null

RunningStates == {"running_filling", "running_full_waiting"}

\* C23: a hook that has been shown a terminal status of its run is on its way
\* out of the running states (it has left them, or a result fetch or a snap
\* is under way), and its status is completed only if a status it was shown
\* was completed.
C23_TerminalMapping ==
  /\ (hook.observed # {} /\ hook.status \in RunningStates)
       => hook.fetches > 0 \/ hook.snaps.completed > 0 \/ hook.snaps.failed > 0
  /\ hook.status = "completed" => "completed" \in hook.observed

SelectedSessions == {Null, OwningSession}

\* the operation reads or writes localStorage
TouchLocal(B, op) == [B EXCEPT !.local = @ \cup {op}]

\* the operation sends a request to the remote datastore
TouchRemote(B, op) == [B EXCEPT !.remote = @ \cup {op}]

\* the branch every operation with a test-mode branch takes
Branch(B, op) == IF B.isTestMode THEN TouchLocal(B, op) ELSE TouchRemote(B, op)

\* lines 222-254
fetchSessions ==
  /\ backend' = IF ~backend.user THEN backend ELSE Branch(backend, "fetchSessions")
  /\ UNCHANGED beyondBackend

\* lines 260-290; in remote mode a created session is followed by fetchSessions
createSession ==
  /\ \E dbOk \in BOOLEAN :
       backend' =
         IF ~backend.user THEN backend
         ELSE IF backend.isTestMode THEN TouchLocal(backend, "createSession")
         ELSE IF dbOk
           THEN TouchRemote(TouchRemote(backend, "createSession"), "fetchSessions")
         ELSE TouchRemote(backend, "createSession")
  /\ UNCHANGED beyondBackend

\* lines 292-319
updateSessionTitle ==
  /\ backend' = Branch(backend, "updateSessionTitle")
  /\ UNCHANGED beyondBackend

\* lines 321-342
updateLastActivity ==
  /\ backend' = Branch(backend, "updateLastActivity")
  /\ UNCHANGED beyondBackend

\* lines 344-367; the archived session is followed by fetchSessions
archiveSession ==
  /\ \E dbOk \in BOOLEAN :
       backend' =
         LET archived == Branch(backend, "archiveSession")
         IN  IF ~backend.user \/ (~backend.isTestMode /\ ~dbOk) THEN archived
             ELSE Branch(archived, "fetchSessions")
  /\ UNCHANGED beyondBackend

\* lines 646-677
LoadMessages ==
  /\ \E sessionId \in SelectedSessions :
       backend' = IF sessionId = Null \/ ~backend.user THEN backend
                  ELSE Branch(backend, "fetchMessages")
  /\ UNCHANGED beyondBackend

\* lines 684-724: the realtime subscription of useMessages
SubscribeMessages ==
  /\ \E sessionId \in SelectedSessions :
       backend' = IF sessionId = Null \/ backend.isTestMode THEN backend
                  ELSE TouchRemote(backend, "subscription")
  /\ UNCHANGED beyondBackend

\* lines 726-771
StoreMessage ==
  /\ \E sessionId \in SelectedSessions :
       backend' = IF sessionId = Null \/ ~backend.user THEN backend
                  ELSE Branch(backend, "addMessage")
  /\ UNCHANGED beyondBackend

\* lines 773-785: updateMessage has one branch
updateMessage ==
  /\ backend' = TouchRemote(backend, "updateMessage")
  /\ UNCHANGED beyondBackend

\* lines 540-555: in remote mode the auth listener sets or clears the user
AuthStateChange ==
  /\ ~backend.isTestMode
  /\ \E signedIn \in BOOLEAN : backend' = [backend EXCEPT !.user = signedIn]
  /\ UNCHANGED beyondBackend

\* lines 527-532: the flag is read from localStorage on the first render and
\* kept in a state without a setter; in test mode the user is the test user
InitBackend ==
  /\ variant = 1
  /\ webhookSecret = Null
  /\ handlers = [h \in Handlers |-> IdleHandler]
  /\ parallelApiKey = ConfiguredParallelKey
  /\ geminiApiKey = ConfiguredGeminiKey
  /\ taskRuns = [r \in {PersistedRun} |-> QueuedRow(OwningSession)]
  /\ messages = <<StartedMessage>>
  /\ testMessages = <<>>
  /\ chat = IdleChat
  /\ fn = IdleFn
  /\ plan = IdlePlan
  /\ hook = IdleHook
  /\ relay = IdleRelay
  /\ store = IdleStore
  /\ query = IdleQuery
  /\ view = IdleView
  /\ area = IdleArea
  /\ \E initialTestMode \in BOOLEAN :
       backend = [IdleBackend EXCEPT !.initialTestMode = initialTestMode,
                                     !.isTestMode = initialTestMode,
                                     !.user = initialTestMode]

NextBackend ==
  \/ fetchSessions
  \/ createSession
  \/ updateSessionTitle
  \/ updateLastActivity
  \/ archiveSession
  \/ LoadMessages
  \/ SubscribeMessages
  \/ StoreMessage
  \/ updateMessage
  \/ AuthStateChange

SpecBackend == InitBackend /\ [][NextBackend]_vars

\* C25: the test-mode flag never changes; in test mode no session or message
\* operation touches the remote datastore, and outside of it none touches the
\* local-storage store.
C25_BackendsNeverMixed ==
  /\ backend.isTestMode = backend.initialTestMode
  /\ backend.isTestMode => backend.remote = {}
  /\ ~backend.isTestMode => backend.local = {}

\* ======================================================================
\* Claims on research-start's response and on chat-send's request
\* ======================================================================

\* C26: a 200 response of research-start carries the provider's run id, the
\* stream URL of that run and the status queued, which is the status of the
\* row it has inserted.
C26_StartResponse ==
  (fn.name = "research-start" /\ fn.pc = "done" /\ fn.resp = 200 /\ fn.run_id = NewRun)
    => /\ fn.body.run_id = NewRun
       /\ fn.body.sse_url = StreamUrl(NewRun)
       /\ fn.body.status = "queued"
       /\ NewRun \in DOMAIN taskRuns /\ fn.body.status = taskRuns[NewRun].status

NewTurn == [role |-> "user", parts |-> Texts(chat.messageContent)]

\* C27: the conversation chat-send submits for a message the client has
\* persisted holds user and model turns only, and the new user message exactly
\* once, as its last turn.
C27_Conversation ==
  (fn.name = "chat-send" /\ fn.request # <<>> /\ ~chat.isTestMode)
    => /\ \A i \in DOMAIN fn.request : fn.request[i].role \in {"user", "model"}
       /\ fn.request[Len(fn.request)] = NewTurn
       /\ Cardinality({i \in DOMAIN fn.request : fn.request[i] = NewTurn}) = 1

\* ======================================================================
\* The race of research-start's row insert with the provider's webhook
\* ======================================================================

\* research-start has created the run at the provider (index.ts lines
\* 108-173) and has not yet inserted its row; the provider may deliver
\* webhooks for the run from now on
InitRace ==
  /\ variant \in {1, 2}
  /\ webhookSecret = Null
  /\ handlers = [h \in Handlers |-> IdleHandler]
  /\ parallelApiKey = ConfiguredParallelKey
  /\ geminiApiKey = ConfiguredGeminiKey
  /\ taskRuns = [r \in {} |-> QueuedRow(OwningSession)]
  /\ messages = <<>>
  /\ testMessages = <<>>
  /\ chat = [IdleChat EXCEPT !.pc = "await", !.user = TRUE, !.sessionId = OwningSession,
                             !.shouldResearch = TRUE, !.researching = TRUE]
  /\ \E v \in {1, 2} :
       fn = [IdleFn EXCEPT !.variant = v, !.name = "research-start", !.pc = "row",
                           !.calls = 1, !.reply = "ok", !.run_id = PersistedRun]
  /\ plan = IdlePlan
  /\ hook = IdleHook
  /\ relay = IdleRelay
  /\ backend = IdleBackend
  /\ view = IdleView
  /\ area = IdleArea
  /\ store = IdleStore
  /\ query = IdleQuery

NextRace ==
  \/ StartInsertRow
  \/ StartInsertMessage
  \/ Next

SpecRace == InitRace /\ [][NextRace]_vars

\* the invocation's status update ran, without a datastore failure, while the
\* run had no row
HandledBeforeRow(h) ==
  /\ handlers[h].run_id = PersistedRun
  /\ handlers[h].pc \notin {"idle", "update"}
  /\ ~handlers[h].touched
  /\ ~handlers[h].dbFailed

\* the invocation's status update found the run's row and carried a terminal
\* status, and the invocation has answered 2xx
Reconciled(h) ==
  /\ handlers[h].run_id = PersistedRun
  /\ handlers[h].touched
  /\ handlers[h].status \in TerminalStatuses
  /\ Answers(h) /\ handlers[h].resp = 200

\* C28: a webhook for a run handled before research-start has inserted the
\* run's row inserts no message and is not answered 2xx; a terminal webhook
\* handled once the row exists leaves the row terminal and an outcome message
\* for the run.
C28_DispatchWebhookRace ==
  \A h \in Handlers :
    /\ HandledBeforeRow(h)
         => /\ InsertedBy(h) = {}
            /\ Answers(h) => handlers[h].resp # 200
    /\ Reconciled(h)
         => /\ taskRuns[PersistedRun].status \in TerminalStatuses
            /\ \E i \in InsertedBy(h) : messages[i].run_id = PersistedRun

\* ======================================================================
\* useMessages in remote mode: fetch, realtime events and addMessage
\* ======================================================================

MaxRows == 2
MaxRevisions == 1

\* the rows of the session as a select returns them, ordered by created_at
Snapshot(rows) == [i \in 1..Len(rows) |-> [id |-> i, rev |-> rows[i]]]

\* the change is announced to the channel if the subscription is joined
Announce(v, event, new) ==
  IF v.subscribed THEN Append(v.events, [event |-> event, new |-> new])
  ELSE v.events

\* a row is inserted into table messages and announced
RowInserted(v) ==
  [v EXCEPT !.rows = Append(v.rows, 0),
            !.events = Announce(v, "INSERT", [id |-> Len(v.rows) + 1, rev |-> 0])]

\* lines 683-724: the channel is joined; the effect subscribes once per session
SubscribeChannel ==
  /\ ~view.subscribed
  /\ view' = [view EXCEPT !.subscribed = TRUE]
  /\ UNCHANGED beyondView

\* lines 646-669, 679-681: the effect calls fetchMessages (on mount and when
\* the user object changes); the select reads the rows, or fails
RequestMessages ==
  /\ ~view.fetching
  /\ \E dbOk \in BOOLEAN :
       view' = [view EXCEPT !.fetching = TRUE,
                            !.failed = ~dbOk,
                            !.data = IF dbOk THEN Snapshot(view.rows) ELSE <<>>]
  /\ UNCHANGED beyondView

\* lines 669-676: setMessages(data || []), or setMessages([]) in the catch
\* branch, then setLoading(false)
MessagesSettle ==
  /\ view.fetching
  /\ view' = [view EXCEPT !.fetching = FALSE, !.list = view.data,
                          !.data = <<>>, !.loading = FALSE]
  /\ UNCHANGED beyondView

\* lines 726-771, remote branch: the row is inserted and returned to the
\* caller; the hook's list is not touched
AddRemoteMessage ==
  /\ Len(view.rows) < MaxRows
  /\ \E dbOk \in BOOLEAN :
       view' = IF dbOk
               THEN [RowInserted(view) EXCEPT !.returned = Len(view.rows) + 1]
               ELSE view
  /\ UNCHANGED beyondView

\* an edge function (research-start, parallel-webhook) inserts a message of
\* the session
FunctionInsertsMessage ==
  /\ Len(view.rows) < MaxRows
  /\ view' = RowInserted(view)
  /\ UNCHANGED beyondView

\* lines 773-785: a row's content is updated
RowUpdated ==
  /\ \E id \in 1..Len(view.rows) :
       /\ view.rows[id] < MaxRevisions
       /\ view' = [view EXCEPT
            !.rows[id] = @ + 1,
            !.events = Announce(view, "UPDATE", [id |-> id, rev |-> view.rows[id] + 1])]
  /\ UNCHANGED beyondView

\* lines 695-698 and 708-715: the handlers of the two events
OnPostgresChange ==
  /\ view.events # <<>>
  /\ LET payload == Head(view.events)
     IN  view' = [view EXCEPT
           !.events = Tail(view.events),
           !.list = IF payload.event = "INSERT" THEN Append(view.list, payload.new)
                    ELSE [i \in 1..Len(view.list) |->
                            IF view.list[i].id = payload.new.id THEN payload.new
                            ELSE view.list[i]]]
  /\ UNCHANGED beyondView

InitView ==
  /\ variant = 1
  /\ webhookSecret = Null
  /\ handlers = [h \in Handlers |-> IdleHandler]
  /\ parallelApiKey = ConfiguredParallelKey
  /\ geminiApiKey = ConfiguredGeminiKey
  /\ taskRuns = [r \in {PersistedRun} |-> QueuedRow(OwningSession)]
  /\ messages = <<StartedMessage>>
  /\ testMessages = <<>>
  /\ chat = IdleChat
  /\ fn = IdleFn
  /\ plan = IdlePlan
  /\ hook = IdleHook
  /\ relay = IdleRelay
  /\ store = IdleStore
  /\ query = IdleQuery
  /\ backend = IdleBackend
  /\ view = IdleView
  /\ area = IdleArea

NextView ==
  \/ SubscribeChannel
  \/ RequestMessages
  \/ MessagesSettle
  \/ AddRemoteMessage
  \/ FunctionInsertsMessage
  \/ RowUpdated
  \/ OnPostgresChange

SpecView == InitView /\ [][NextView]_vars

\* the hook has loaded, the latest fetch succeeded and has settled, the
\* channel is joined and no event is on its way
Settled ==
  /\ ~view.loading /\ ~view.fetching /\ ~view.failed
  /\ view.subscribed /\ view.events = <<>>

\* C29: the local message list holds each message id at most once, is in
\* creation order, and, once the fetch has settled and the events have been
\* delivered, holds every inserted message of the session.
C29_TranscriptConsistent ==
  /\ \A i, j \in 1..Len(view.list) : i < j => view.list[i].id # view.list[j].id
  /\ \A i, j \in 1..Len(view.list) : i < j => view.list[i].id <= view.list[j].id
  /\ Settled => \A id \in 1..Len(view.rows) :
                  \E i \in 1..Len(view.list) : view.list[i].id = id

\* ======================================================================
\* The chat area over several handleSendMessage calls
\* ======================================================================

MaxSends == 2

\* an invocation past the entry guard (ChatArea.tsx lines 53-63), about to
\* await addMessage('user', messageContent)
Invocation(A) ==
  [pc |-> "user", input |-> A.input, sessionId |-> A.sessionId,
   messageContent |-> trim(A.input),
   shouldResearch |-> isResearchQuery(trim(A.input))]

\* what an invocation inserted or requested, with what it was called with
Posted(A, i, kind) ==
  [A EXCEPT !.posted = @ \cup {[kind |-> kind, input |-> A.calls[i].input,
                                sessionId |-> A.calls[i].sessionId]}]

\* the invocation moves on to its next await
Proceed(A, i, pc) == [A EXCEPT !.calls[i].pc = pc]

\* lines 85-88: the finally block clears both flags and the invocation ends
EndOfCall(A, i) ==
  [A EXCEPT !.sending = FALSE, !.researching = FALSE,
            !.calls = [j \in 1..(Len(A.calls) - 1) |->
                         IF j < i THEN A.calls[j] ELSE A.calls[j + 1]]]

\* the entry guard of line 51
Returns(A) ==
  trim(A.input) = <<>> \/ A.sessionId = Null \/ A.sending \/ A.researching

\* lines 50-63 with the busy flags never raised
CallWithoutFlags ==
  /\ Returns(area) \/ area.sends < MaxSends
  /\ area' =
       IF Returns(area)
         THEN [area EXCEPT !.declined = @ \/ area.calls # <<>>]
         ELSE [area EXCEPT !.input = <<>>,
                           !.calls = Append(@, Invocation(area)),
                           !.sends = @ + 1]
  /\ UNCHANGED beyondArea

\* lines 50-63: handleSendMessage is called (Enter, line 169, or the send
\* button, line 221) in whatever state the chat area is in
CallSendMessage ==
  /\ Returns(area) \/ area.sends < MaxSends
  /\ area' =
       IF Returns(area)
         THEN [area EXCEPT !.declined = @ \/ area.calls # <<>>]
         ELSE [area EXCEPT !.input = <<>>,
                           !.researching = isResearchQuery(trim(area.input)),
                           !.sending = ~isResearchQuery(trim(area.input)),
                           !.calls = Append(@, Invocation(area)),
                           !.sends = @ + 1]
  /\ UNCHANGED beyondArea

\* lines 214 and 217: the text box changes; it is disabled during a send
ChangeInput ==
  /\ ~(area.sending \/ area.researching)
  /\ \E text \in ChatInputs : area' = [area EXCEPT !.input = text]
  /\ UNCHANGED beyondArea

\* line 14: the sessionId prop changes
SelectSession ==
  /\ \E sessionId \in {Null, OwningSession} :
       area' = [area EXCEPT !.sessionId = sessionId]
  /\ UNCHANGED beyondArea

\* line 66: the user message insert settles
UserInsertSettles ==
  /\ \E i \in 1..Len(area.calls), dbOk \in BOOLEAN :
       /\ area.calls[i].pc = "user"
       /\ area' = IF dbOk THEN Proceed(Posted(area, i, "user message"), i, "activity")
                  ELSE Proceed(area, i, "catch")
  /\ UNCHANGED beyondArea

\* lines 69-77: updateLastActivity settles (its error is not rethrown); a
\* research query inserts its placeholder message (lines 124-126); then the
\* request to research-start or chat-send is sent
RequestSent ==
  /\ \E i \in 1..Len(area.calls), dbOk \in BOOLEAN :
       /\ area.calls[i].pc = "activity"
       /\ area' = IF area.calls[i].shouldResearch /\ ~dbOk
                    THEN Proceed(area, i, "catch")
                    ELSE Proceed(Posted(area, i, "request"), i, "request")
  /\ UNCHANGED beyondArea

\* lines 92-113 and 139-157: the response arrives and passes the checks, or
\* the call throws
RequestSettles ==
  /\ \E i \in 1..Len(area.calls), ok \in BOOLEAN :
       /\ area.calls[i].pc = "request"
       /\ area' = Proceed(area, i, IF ok THEN "reply" ELSE "catch")
  /\ UNCHANGED beyondArea

\* lines 115-119 and 159-164: the insert of the reply settles
ReplyInsertSettles ==
  /\ \E i \in 1..Len(area.calls), dbOk \in BOOLEAN :
       /\ area.calls[i].pc = "reply"
       /\ area' = IF dbOk THEN EndOfCall(Posted(area, i, "reply message"), i)
                  ELSE Proceed(area, i, "catch")
  /\ UNCHANGED beyondArea

\* lines 78-88: the insert of the error message settles, then finally
CatchSettles ==
  /\ \E i \in 1..Len(area.calls), dbOk \in BOOLEAN :
       /\ area.calls[i].pc = "catch"
       /\ area' = IF dbOk THEN EndOfCall(Posted(area, i, "error message"), i)
                  ELSE EndOfCall(area, i)
  /\ UNCHANGED beyondArea

InitArea ==
  /\ variant = 1
  /\ webhookSecret = Null
  /\ handlers = [h \in Handlers |-> IdleHandler]
  /\ parallelApiKey = ConfiguredParallelKey
  /\ geminiApiKey = ConfiguredGeminiKey
  /\ taskRuns = [r \in {PersistedRun} |-> QueuedRow(OwningSession)]
  /\ messages = <<StartedMessage>>
  /\ testMessages = <<>>
  /\ chat = IdleChat
  /\ fn = IdleFn
  /\ plan = IdlePlan
  /\ hook = IdleHook
  /\ relay = IdleRelay
  /\ store = IdleStore
  /\ query = IdleQuery
  /\ backend = IdleBackend
  /\ view = IdleView
  /\ area = IdleArea

NextArea ==
  \/ CallSendMessage
  \/ ChangeInput
  \/ SelectSession
  \/ UserInsertSettles
  \/ RequestSent
  \/ RequestSettles
  \/ ReplyInsertSettles
  \/ CatchSettles

SpecArea == InitArea /\ [][NextArea]_vars

\* the invocations awaiting the step named pc
Outstanding(pc) == {i \in 1..Len(area.calls) : area.calls[i].pc = pc}

\* C30: at most one handleSendMessage invocation is past the entry guard at any
\* time, and a busy flag is up exactly while one is, so at most one user
\* message insert and at most one chat-send or research-start request is
\* outstanding; nothing is inserted or requested for an input that is empty
\* or whitespace only, or without a session.
C30_SingleInFlight ==
  /\ Len(area.calls) <= 1
  /\ (area.calls # <<>>) <=> (area.sending \/ area.researching)
  /\ Cardinality(Outstanding("user")) <= 1
  /\ Cardinality(Outstanding("request")) <= 1
  /\ \A p \in area.posted : trim(p.input) # <<>> /\ p.sessionId # Null

\* a call made during a send returned at the guard, and two sends have
\* inserted their user message and sent their request one after the other
C30_Witness ==
  /\ area.declined
  /\ area.sends = MaxSends
  /\ Cardinality({p \in area.posted : p.kind = "request"}) >= 2
  /\ area.calls # <<>> /\ area.input = <<>>

====
